---- MODULE Spec2Model ----
(***************************************************************************)
(* Downwind foil simulator (src/src/main.ts): the game-state machine, the  *)
(* physics step, the wave field, the race tracker, the high-score store    *)
(* and the key handlers, as a state machine.                               *)
(*                                                                         *)
(* Numbers are fixed point.  One unit is:                                  *)
(*   time, dt            1/300 s   (so the 1/30 s clamp is 10 units)       *)
(*   position, distance  1 mm                                              *)
(*   velocity, speed     1 mm/s                                            *)
(*   rideHeight          1 um      rideHeightVel  1 um/s                   *)
(*   angles              1 urad    rollRate       1 urad/s                 *)
(*   sin, cos, smoothstep, lift coefficient, wave normal   1/10000         *)
(*   energy              1/60      (so 5 energy per second is 1 per tick)  *)
(*   forces              1 dN (0.1 N)                                      *)
(*   windSpeed           1/100     wave gradient  1/1000                   *)
(* Products of the physics step are rounded to the nearest unit (Rnd).     *)
(*                                                                         *)
(* The clock of the program is a double.  Where the outcome of a frame     *)
(* hangs on its rounding (a pump exactly PUMP_COOLDOWN after the last one, *)
(* a time exactly halfway between two tenths of a second) or on the        *)
(* browser (localStorage refusing a write), the frame takes the outcome    *)
(* as an input, env, and every outcome is explored.                        *)
(***************************************************************************)
EXTENDS Integers, Sequences, FiniteSets, TLC

VARIABLES
    foilState,      \* main.ts:124  the rider (RiderState)
    gameState,      \* main.ts:141
    race,           \* main.ts:155  RaceData
    input,          \* main.ts:236
    activeFoil,     \* main.ts:72   name of the selected preset
    PARAMS,         \* main.ts:14   the GUI parameters read by the physics
    time,           \* clock.elapsedTime as of the last frame
    highScores,     \* the localStorage list of RACE_LENGTH_KM, as stored
    finishOverlay,  \* finishOverlay.style.display = 'block'
    frames,         \* frames run off the scripted run
    keys,           \* key and GUI events off the scripted run
    call            \* arguments and results of a function called on its own

vars == <<foilState, gameState, race, input, activeFoil, PARAMS, time, highScores,
          finishOverlay, frames, keys, call>>

----------------------------------------------------------------------------
(* Bounds of the model *)

\* frames of free input per behaviour
MaxFrames == 2

\* key and GUI events of free input per behaviour
MaxKeys == 2

\* calls of saveHighScore per behaviour
MaxSaves == 4

\* physics steps run from a rider picked in mid-ride
MaxSteps == 1

\* values of x tried on each half of the way from edge0 to edge1
HalfSteps == 15

----------------------------------------------------------------------------
(* Units *)

TicksPerSec == 30 * 10           \* time units per second
EnergyScale == 6 * 10            \* energy units per point of energy
Milli == 10 * 100
Unit == 100 * 100                \* 1.0 of a sine, a smoothstep, a lift coefficient
Micro == Milli * Milli

----------------------------------------------------------------------------
(* Arithmetic helpers *)

Abs(x) == IF x < 0 THEN -x ELSE x
Min(a, b) == IF a < b THEN a ELSE b
Max(a, b) == IF a > b THEN a ELSE b

\* a / b truncated toward zero (b > 0)
Div(a, b) == IF a >= 0 THEN a \div b ELSE -((-a) \div b)

\* a / b rounded to the nearest unit, halves away from zero (b > 0)
Rnd(a, b) == IF a >= 0 THEN (a + b \div 2) \div b ELSE -(((-a) + b \div 2) \div b)

\* THREE.MathUtils.clamp
clamp(x, lo, hi) == Max(lo, Min(hi, x))

\* a * b modulo m without a product beyond 3 * m (0 <= a < m, b >= 0)
RECURSIVE MulMod(_, _, _)
MulMod(a, b, m) ==
    IF b = 0 THEN 0
    ELSE (2 * MulMod(a, b \div 2, m) + (b % 2) * a) % m

(***************************************************************************)
(* The program computes in doubles, which hold every product of the        *)
(* physics step.  A product too large for the integers of the model is     *)
(* held as a pair <<q, r>> for q * d + r, 0 <= r < d, of a divisor d below *)
(* 2^30 that the product is divided by next.                               *)
(***************************************************************************)

\* the pair of a * b for a, b >= 0, digit by digit of b in radix R, with
\* d * R at most 2^30: <<qa, ra>> is the pair of a times the power of R
\* reached, <<q, r>> the sum over the digits passed; neg for the pair of
\* -(a * b)
RECURSIVE WideMulIter(_, _, _, _, _, _, _, _)
WideMulIter(qa, ra, b, q, r, d, R, neg) ==
    IF b = 0
    THEN IF ~neg THEN <<q, r>> ELSE IF r = 0 THEN <<-q, 0>> ELSE <<-q - 1, d - r>>
    ELSE WideMulIter(IF b >= R THEN qa * R + (ra * R) \div d ELSE 0, (ra * R) % d,
                     b \div R,
                     q + (b % R) * qa + (r + (b % R) * ra) \div d,
                     (r + (b % R) * ra) % d, d, R, neg)

\* the pair of a * b: of the product itself where it fits
WideMul(a, b, d) ==
    IF b = 0 \/ Abs(a) <= 2147483647 \div Abs(b)
    THEN <<(a * b) \div d, (a * b) % d>>
    ELSE WideMulIter(Max(Abs(a), Abs(b)) \div d, Max(Abs(a), Abs(b)) % d,
                     Min(Abs(a), Abs(b)), 0, 0, d, Max(2, 1073741823 \div d),
                     (a < 0) # (b < 0))

\* the pair of the sum of two pairs
WideAdd(p, q, d) == <<p[1] + q[1] + (p[2] + q[2]) \div d, (p[2] + q[2]) % d>>

\* the pair of the dot product of v and w
WideDot(v, w, d) ==
    WideAdd(WideAdd(WideMul(v.x, w.x, d), WideMul(v.y, w.y, d), d), WideMul(v.z, w.z, d), d)

\* the number a pair stands for, divided by d and rounded as Rnd does
WideRnd(p, d) ==
    IF p[1] >= 0 THEN p[1] + (p[2] + d \div 2) \div d
    ELSE IF p[2] > d \div 2 THEN p[1] + 1 ELSE p[1]

\* Rnd(a * b, d) of any product
MulRnd(a, b, d) == WideRnd(WideMul(a, b, d), d)

\* Math.sqrt on an exact square or the floor of it, of the number n >= 1 the
\* pair p of Micro stands for: Newton's iteration from x above the root, y
\* the step after x, (x + n / x) / 2
RECURSIVE WideSqrtIter(_, _, _)
WideSqrtIter(p, x, y) ==
    IF y >= x THEN x
    ELSE WideSqrtIter(p, y, (y + WideAdd(WideMul(p[1], Micro, y), <<0, p[2]>>, y)[1]) \div 2)

----------------------------------------------------------------------------
(* Program constants, in the units above *)

SPAWN_POINT == [x |-> 0, y |-> 0, z |-> -800 * Milli]   \* mm
RACE_LENGTH_KM == 1
RACE_START_Z == SPAWN_POINT.z
KM == Milli * Milli              \* 1000 m in mm
HIGH_SCORE_MAX == 3

GRAVITY == 981                   \* cm/s^2
RHO_WATER == 1025                \* kg/m^3
RIDER_MASS == 80                 \* kg
MAST_LENGTH == 800000            \* um
MAST_DRAG_AREA == 1500           \* mm^2
PUMP_IMPULSE == 2500             \* mm/s
PUMP_COST == 20 * EnergyScale
PUMP_COOLDOWN == 105             \* 0.35 s
ENERGY_REGEN == 5                \* energy points per second
ENERGY_MAX == 100 * EnergyScale
MAX_ROLL == 523599               \* pi/6 in urad
MAX_PITCH == 87266               \* pi/36 in urad
ROLL_SPRING == 6
ROLL_DAMPING == 3
WAVE_TORQUE_GAIN == 2
HEIGHT_SPRING == 8
HEIGHT_DAMPING == 8
WAVE_ENERGY_MULT == 25           \* tenths
LATERAL_RESISTANCE == 1
DT_MAX == 10                     \* 1/30 s
PI == 3141593                    \* urad
WIND_SPEED == 118                \* PARAMS.windSpeed as constructed, 1.18

\* RIDER_MASS * GRAVITY in dN
WEIGHT == (RIDER_MASS * GRAVITY) \div 10

FoilNames == {"High Aspect Race", "Mid Aspect Cruise"}

\* wingSpan mm, wingArea cm^2, aspectRatio x100, stallSpeed mm/s,
\* maxLiftCoeff per mille, baseDragCoeff x10^-6, turnRateMax urad/s
FOIL_PRESETS ==
    [n \in FoilNames |->
        IF n = "High Aspect Race"
        THEN [name |-> n, wingSpan |-> 1000, wingArea |-> 800, chord |-> 80,
              aspectRatio |-> 1250, stallSpeed |-> 7000, maxLiftCoeff |-> 500,
              baseDragCoeff |-> 10000, turnRateMax |-> 2000000]
        ELSE [name |-> n, wingSpan |-> 1200, wingArea |-> 2340, chord |-> 195,
              aspectRatio |-> 615, stallSpeed |-> 4000, maxLiftCoeff |-> 500,
              baseDragCoeff |-> 12000, turnRateMax |-> 600000]]

----------------------------------------------------------------------------
(* Helper functions *)

\* smoothstep without the clamp of t to [0, 1]
smoothstepUnclamped(edge0, edge1, x) ==
    LET t == WideMul(x - edge0, Unit, edge1 - edge0)[1]
    IN  Div(Div(t * t, Unit) * (3 * Unit - 2 * t), Unit)

\* main.ts:247-250  smoothstep(edge0, edge1, x), result in 1/10000; t is the
\* quotient cut to a whole number of units, clamped
smoothstep(edge0, edge1, x) ==
    LET t == clamp(WideMul(x - edge0, Unit, edge1 - edge0)[1], 0, Unit)
    IN  Div(Div(t * t, Unit) * (3 * Unit - 2 * t), Unit)

\* angle (urad) brought to [-pi, pi)
WrapAngle(a) == ((a + PI) % (2 * PI)) - PI

\* sin and cos of m/10000 rad, |m| <= pi/2, in 1/10000 (Taylor to the 7th
\* and 8th power)
SinFirst(m) ==
    LET x2 == Div(m * m, Unit)
        a  == Unit - Div(x2, 42)
        b  == Unit - Div(x2 * a, 20 * Unit)
        c  == Unit - Div(x2 * b, 6 * Unit)
    IN  Div(m * c, Unit)

CosFirst(m) ==
    LET x2 == Div(m * m, Unit)
        a  == Unit - Div(x2, 56)
        b  == Unit - Div(x2 * a, 30 * Unit)
        c  == Unit - Div(x2 * b, 12 * Unit)
    IN  Unit - Div(x2 * c, 2 * Unit)

\* Math.sin, Math.cos of an angle in urad, in 1/10000
Sin(a) ==
    LET m == Rnd(WrapAngle(a), 100)
    IN  IF m > 15708 THEN SinFirst(31416 - m)
        ELSE IF m < -15708 THEN SinFirst(-31416 - m)
        ELSE SinFirst(m)

Cos(a) ==
    LET m == Rnd(WrapAngle(a), 100)
    IN  IF m > 15708 THEN -CosFirst(31416 - m)
        ELSE IF m < -15708 THEN -CosFirst(-31416 - m)
        ELSE CosFirst(m)

\* Math.exp(-x/10^6) in millionths, 0 <= x <= 33334 (dt is at most 1/30 s)
ExpNeg(x) == Micro - x + Div(x * x, 2 * Micro) - Div(Div(x * x, Micro) * x, 6 * Micro)

\* a vector scaled by s/10000
Scale(v, s) ==
    [x |-> MulRnd(v.x, s, Unit), y |-> MulRnd(v.y, s, Unit), z |-> MulRnd(v.z, s, Unit)]
Add(v, w) == [x |-> v.x + w.x, y |-> v.y + w.y, z |-> v.z + w.z]
Sub(v, w) == [x |-> v.x - w.x, y |-> v.y - w.y, z |-> v.z - w.z]

\* Vector3.length, floor of: the root is at most the sum of the components
Length(v) ==
    IF v.x = 0 /\ v.y = 0 /\ v.z = 0 THEN 0
    ELSE WideSqrtIter(WideDot(v, v, Micro), Abs(v.x) + Abs(v.y) + Abs(v.z) + 1,
                      Abs(v.x) + Abs(v.y) + Abs(v.z))

\* main.ts:252  unit vector of a heading, in 1/10000
headingToDir(heading) == [x |-> Sin(heading), y |-> 0, z |-> Cos(heading)]

\* main.ts:81
downwindDist(fs) == Max(0, fs.position.z - RACE_START_Z)

----------------------------------------------------------------------------
(* CPU wave logic, main.ts:292-297 and 615-687.  windSpeed is in           *)
(* hundredths, the clock in ticks, lengths in mm.                          *)

\* main.ts:292-297  dir in hundredths, steepness per mille, wavelength mm,
\* speed in tenths; celerity is sqrt(9.8 / k) * speed, k = 2 pi / wavelength,
\* in um/s (7.898654 m/s * 1.2 for the first wave)
waveConfig ==
    <<[dirX |-> 20, dirZ |-> 90, steepness |-> 150, wavelength |-> 40000, speed |-> 12,
       celerity |-> 9478385],
      [dirX |-> -10, dirZ |-> 95, steepness |-> 100, wavelength |-> 25000, speed |-> 11,
       celerity |-> 6868878],
      [dirX |-> 30, dirZ |-> 80, steepness |-> 80, wavelength |-> 15000, speed |-> 13,
       celerity |-> 6287994],
      [dirX |-> -20, dirZ |-> 90, steepness |-> 50, wavelength |-> 8000, speed |-> 15,
       celerity |-> 5298578]>>

\* main.ts:622  c = sqrt(9.8 / k) * speed * windSpeed, um/s
waveCelerity(w, windSpeed) ==
    (w.celerity \div 100) * windSpeed + Div((w.celerity % 100) * windSpeed, 100)

\* c * time modulo the wavelength lam (um), t in ticks: whole seconds by
\* MulMod, the rest of a second directly
travelOf(c, lam, t) ==
    (MulMod(c % lam, t \div TicksPerSec, lam)
     + (c \div TicksPerSec) * (t % TicksPerSec)
     + Div((c % TicksPerSec) * (t % TicksPerSec), TicksPerSec)) % lam

\* d in units of 10 um and the way travelled in um, as a phase in urad:
\* millionths of a cycle times 2 pi = 6.283185
phaseOf(w, d, travelled) ==
    LET p == Div((d * 10 - travelled) % (w.wavelength * Milli), w.wavelength \div Milli)
    IN  p * 6 + Div(p * 283, Milli) + Div(p * 185, Micro)

\* main.ts:623-624  f = k * (d - c * time), urad in [0, 2 pi)
wavePhase(w, x, z, t, windSpeed) ==
    phaseOf(w, (w.dirX * x + w.dirZ * z) % (w.wavelength * 100),
            travelOf(waveCelerity(w, windSpeed), w.wavelength * Milli, t))

\* main.ts:625-626  a = steepness * windSpeed^2 / k, in tenths of a mm
waveAmplitude(w, windSpeed) ==
    Div(w.steepness * windSpeed * windSpeed * (w.wavelength \div Milli), 6283)

\* main.ts:625  effectiveSteepness = steepness * windSpeed^2, in 1/100000
waveSteepness(w, windSpeed) == Div(w.steepness * windSpeed * windSpeed, 100)

\* main.ts:628-638  what one wave adds to the point (um) and to the tangent
\* and binormal (millionths), from the sine s and cosine c of its phase, its
\* amplitude a and its effective steepness es
waveTermOf(w, s, c, a, es) ==
    [px |-> Div(w.dirX * Div(a * c, 100), 100),
     py |-> Div(a * s, 100),
     pz |-> Div(w.dirZ * Div(a * c, 100), 100),
     tx |-> -Rnd(w.dirX * w.dirX * Rnd(es * s, Unit), Milli),
     ty |-> Rnd(w.dirX * Rnd(es * c, Unit), 10),
     tz |-> -Rnd(w.dirX * w.dirZ * Rnd(es * s, Unit), Milli),
     bx |-> -Rnd(w.dirX * w.dirZ * Rnd(es * s, Unit), Milli),
     by |-> Rnd(w.dirZ * Rnd(es * c, Unit), 10),
     bz |-> -Rnd(w.dirZ * w.dirZ * Rnd(es * s, Unit), Milli)]

waveTermAt(w, f, windSpeed) ==
    waveTermOf(w, Sin(f), Cos(f), waveAmplitude(w, windSpeed), waveSteepness(w, windSpeed))

waveTerm(w, x, z, t, windSpeed) == waveTermAt(w, wavePhase(w, x, z, t, windSpeed), windSpeed)

\* main.ts:641  normal = cross(binormal, tangent).normalize(), all three in
\* 1/10000 (the sums of the waves' terms rounded to it): the cross product
\* over its length (Vector3.normalize divides by 1 where the length is 0)
waveNormal(tn, bn) ==
    LET cross(a, b, c, d) == WideRnd(WideAdd(WideMul(a, b, Unit), WideMul(-c, d, Unit), Unit), Unit)
        over(v, len) == [x |-> MulRnd(v.x, Unit, len), y |-> MulRnd(v.y, Unit, len),
                         z |-> MulRnd(v.z, Unit, len)]
        normalize(v) == over(v, Max(Length(v), 1))
    IN  normalize([x |-> cross(bn.y, tn.z, bn.z, tn.y),
                   y |-> cross(bn.z, tn.x, bn.x, tn.z),
                   z |-> cross(bn.x, tn.y, bn.y, tn.x)])

\* main.ts:616-642  the sums over the four waves: the displaced point (x and
\* z in mm, y in um) and the unit normal (1/10000)
termSum(x, z, s1, s2, s3, s4) ==
    [x |-> x + Rnd(s1.px + s2.px + s3.px + s4.px, Milli),
     y |-> s1.py + s2.py + s3.py + s4.py,
     z |-> z + Rnd(s1.pz + s2.pz + s3.pz + s4.pz, Milli),
     normal |-> waveNormal([x |-> Unit + Rnd(s1.tx + s2.tx + s3.tx + s4.tx, 100),
                            y |-> Rnd(s1.ty + s2.ty + s3.ty + s4.ty, 100),
                            z |-> Rnd(s1.tz + s2.tz + s3.tz + s4.tz, 100)],
                           [x |-> Rnd(s1.bx + s2.bx + s3.bx + s4.bx, 100),
                            y |-> Rnd(s1.by + s2.by + s3.by + s4.by, 100),
                            z |-> Unit + Rnd(s1.bz + s2.bz + s3.bz + s4.bz, 100)])]

\* main.ts:615-643  getWaterDisplacement
getWaterDisplacement(x, z, t, windSpeed) ==
    termSum(x, z, waveTerm(waveConfig[1], x, z, t, windSpeed),
                  waveTerm(waveConfig[2], x, z, t, windSpeed),
                  waveTerm(waveConfig[3], x, z, t, windSpeed),
                  waveTerm(waveConfig[4], x, z, t, windSpeed))

\* main.ts:650  the extra evaluations of the solver
SurfaceIterations == 3

RECURSIVE surfaceLoop(_, _, _, _, _, _, _, _)
RECURSIVE surfaceLoopHalfShift(_, _, _, _, _, _, _, _)
RECURSIVE surfaceEval(_, _, _, _, _, _, _)

\* main.ts:648 and 655  info = getWaterDisplacement(testX, testZ, ...), then on
surfaceEval(worldX, worldZ, t, windSpeed, testX, testZ, i) ==
    surfaceLoop(worldX, worldZ, t, windSpeed, testX, testZ,
                getWaterDisplacement(testX, testZ, t, windSpeed), i)

\* the loop shifting the test point by half the error only
surfaceLoopHalfShift(worldX, worldZ, t, windSpeed, testX, testZ, info, i) ==
    IF i = SurfaceIterations THEN <<info>>
    ELSE <<info>> \o surfaceEval(worldX, worldZ, t, windSpeed,
                                 testX + Div(worldX - info.x, 2),
                                 testZ + Div(worldZ - info.z, 2), i + 1)

\* main.ts:650-656  the loop from iteration i on: the points evaluated
surfaceLoop(worldX, worldZ, t, windSpeed, testX, testZ, info, i) ==
    IF i = SurfaceIterations THEN <<info>>
    ELSE <<info>> \o surfaceEval(worldX, worldZ, t, windSpeed,
                                 testX + (worldX - info.x),
                                 testZ + (worldZ - info.z), i + 1)

\* main.ts:645-658  getSurfaceInfoAtWorldPos: every point evaluated, the last
\* of them returned
surfaceEvals(worldX, worldZ, t, windSpeed) ==
    surfaceEval(worldX, worldZ, t, windSpeed, worldX, worldZ, 0)

getSurfaceInfoAtWorldPos(worldX, worldZ, t, windSpeed) ==
    surfaceEvals(worldX, worldZ, t, windSpeed)[SurfaceIterations + 1]

\* main.ts:682-684  gradient = (-n.x, -n.z) / max(n.y, 0.01) of the unit
\* normal n (1/10000), per mille
waveGradient(n) ==
    [x |-> MulRnd(-n.x, Milli, Max(n.y, Unit \div 100)),
     y |-> MulRnd(-n.z, Milli, Max(n.y, Unit \div 100))]

\* main.ts:686 and 1585  the sample the physics reads: the gradient at the
\* centre and rightTip.y - leftTip.y (um)
sampleOf(center, leftTip, rightTip) ==
    [gradient |-> waveGradient(center.normal), heightDiff |-> rightTip.y - leftTip.y]

\* the three points sampled, from the right vector (1/10000) and half the span
sampleAcross(cx, cz, right, halfSpan, t, windSpeed) ==
    sampleOf(getSurfaceInfoAtWorldPos(cx, cz, t, windSpeed),
             getSurfaceInfoAtWorldPos(cx - Rnd(right.x * halfSpan, Unit),
                                      cz - Rnd(right.z * halfSpan, Unit), t, windSpeed),
             getSurfaceInfoAtWorldPos(cx + Rnd(right.x * halfSpan, Unit),
                                      cz + Rnd(right.z * halfSpan, Unit), t, windSpeed))

\* main.ts:662-686  sampleWaveAtFoilPoints(time, windSpeed) for the rider fs
\* on the foil
sampleWaveAtFoilPoints(fs, foil, t, windSpeed) ==
    sampleAcross(fs.position.x, fs.position.z,
                 [x |-> Cos(fs.heading), z |-> -Sin(fs.heading)],
                 foil.wingSpan \div 2, t, windSpeed)

----------------------------------------------------------------------------
(* Physics step, main.ts:1564-1702 *)

\* main.ts:1573-1579  targets from the held keys (right wins over left, down over up)
targetRollOf(inp) == IF inp.right THEN -MAX_ROLL ELSE IF inp.left THEN MAX_ROLL ELSE 0
targetPitchOf(inp) == IF inp.down THEN -MAX_PITCH ELSE IF inp.up THEN MAX_PITCH ELSE 0

\* main.ts:1599-1600  lift coefficient (1/10000) at a speed
liftCoeff(foil, speed) ==
    Rnd(foil.maxLiftCoeff *
        smoothstep(Div(foil.stallSpeed * 7, 10), Div(foil.stallSpeed * 13, 10), speed),
        Milli)

\* 0.5 * RHO_WATER * speed^2 in Pa
dynPressure(speed) == MulRnd(RHO_WATER, MulRnd(speed, speed, 2000), Milli)

\* main.ts:1601  lift in dN
liftMagOf(foil, speed) ==
    MulRnd(dynPressure(speed), Rnd(liftCoeff(foil, speed) * foil.wingArea, 10), Micro)

\* main.ts:1604  Math.PI * aspectRatio * 0.85, in hundredths
inducedDenom(foil) == Rnd(Rnd(Rnd(PI, 100) * foil.aspectRatio, 100) * 85, Unit)

\* main.ts:1604-1606  (baseDragCoeff + CL^2 / (pi * AR * 0.85)) * wingArea,
\* in 10^-8 m^2, from the lift coefficient cl
dragArea(foil, cl) ==
    Rnd((foil.baseDragCoeff * 10 + Rnd(cl * cl * 10, inducedDenom(foil))) * foil.wingArea,
        Milli)

\* main.ts:1606-1613  drag in dN at the dynamic pressure q: wing, mast, and
\* the board touching the water below 0.1 m
dragAt(q, foil, cl, rideHeight) ==
    MulRnd(q, dragArea(foil, cl), 10 * Micro)
    + MulRnd(q, Rnd(8 * MAST_DRAG_AREA, 10), 100000)
    + (IF rideHeight < 100000
       THEN MulRnd(q, Rnd((100000 - rideHeight) * 15, 10), Micro)
       ELSE 0)

\* main.ts:1604-1613  drag in dN
dragMagOf(foil, speed, rideHeight) ==
    dragAt(dynPressure(speed), foil, liftCoeff(foil, speed), rideHeight)

\* main.ts:1616-1626  horizontal force in dN: wave slope plus drag
forceOf(fs, speed, dragMag, wave) ==
    LET push == Div(WEIGHT * WAVE_ENERGY_MULT, 10)
        wx   == MulRnd(-wave.gradient.x, push, Milli)
        wz   == MulRnd(-wave.gradient.y, push, Milli)
    IN  IF speed > 10
        THEN [x |-> wx + MulRnd(-dragMag, fs.velocity.x, speed), y |-> 0,
              z |-> wz + MulRnd(-dragMag, fs.velocity.z, speed)]
        ELSE [x |-> wx, y |-> 0, z |-> wz]

\* main.ts:1630-1631  centripetal / (RIDER_MASS * max(speed, 2.0)) in urad/s,
\* to the nearest 100: the centripetal part of the lift is in dN
headingRateOf(roll, speed, liftMag) ==
    100 * MulRnd(MulRnd(Rnd(liftMag, 10), Sin(roll), Milli), Div(Micro, RIDER_MASS),
                 Max(speed, 2000))

\* the turn without the clamp of the heading rate
headingAfterTurnUnclamped(heading, roll, speed, liftMag, foil, dt) ==
    IF Abs(roll) > 10000 /\ speed > 1000
    THEN heading + MulRnd(headingRateOf(roll, speed, liftMag), dt, TicksPerSec)
    ELSE heading

\* main.ts:1629-1634  heading after turning from roll
headingAfterTurn(heading, roll, speed, liftMag, foil, dt) ==
    IF Abs(roll) > 10000 /\ speed > 1000
    THEN heading + Rnd(clamp(headingRateOf(roll, speed, liftMag),
                             -foil.turnRateMax, foil.turnRateMax) * dt, TicksPerSec)
    ELSE heading

\* the pump guard without the cooldown
pumpFiresNoCooldown(inp, fs, t, env) == inp.pump /\ fs.energy >= PUMP_COST

\* main.ts:1637  the pump guard.  time - lastPumpTime is a difference of
\* doubles: when the clock says exactly PUMP_COOLDOWN it is above 0.35 or
\* not as the rounding falls, env.pumpAtTie
pumpFires(inp, fs, t, env) ==
    /\ inp.pump
    /\ fs.energy >= PUMP_COST
    /\ \/ (t - fs.lastPumpTime) > PUMP_COOLDOWN
       \/ (t - fs.lastPumpTime) = PUMP_COOLDOWN /\ env.pumpAtTie

\* energy regeneration without the cap at 100
energyRegenUncapped(energy, dt) ==
    energy + Div(ENERGY_REGEN * EnergyScale * dt, TicksPerSec)

\* main.ts:1649
energyRegen(energy, dt) ==
    Min(ENERGY_MAX, energy + Div(ENERGY_REGEN * EnergyScale * dt, TicksPerSec))

\* main.ts:1657-1661  lateral slip decay along the unit vector dir: the
\* velocity less the part of its lateral component that decays,
\* lateral * (1 - exp(-LATERAL_RESISTANCE * dt)), which is what
\* dir * fwdSpeed + lateral * exp(-LATERAL_RESISTANCE * dt) comes to
slipAlong(v, dir, dt) ==
    LET fwdSpeed == WideRnd(WideDot(v, dir, Unit), Unit)
        lateral  == Sub(v, Scale(dir, fwdSpeed))
        lost     == Micro - ExpNeg(Div(LATERAL_RESISTANCE * dt * Micro, TicksPerSec))
    IN  [x |-> v.x - MulRnd(lateral.x, lost, Micro), y |-> 0,
         z |-> v.z - MulRnd(lateral.z, lost, Micro)]

\* main.ts:1657-1661  lateral slip decay
slipDecay(v, heading, dt) == slipAlong(v, headingToDir(heading), dt)

\* main.ts:1668  lift / weight, per mille
liftRatioOf(liftMag) == MulRnd(liftMag, Milli, WEIGHT)

\* main.ts:1669-1673  (liftRatio - 0.8) / 1.2 * MAST_LENGTH * 0.8 clamped to
\* the mast, um: 1600 / 3 um for each per mille of lift ratio, of a lift
\* ratio held at 10.0, far above the 2.3 that reaches the top of the mast
targetHeightOf(liftRatio) ==
    clamp(Rnd((Min(liftRatio, 10 * Milli) - 800) * Div(Div(MAST_LENGTH * 8, 10), 400), 3),
          0, MAST_LENGTH)

\* the ride height step without the floor under a foil that lifts
rideHeightStepNoFloor(rideHeight, rideHeightVel, pitch, liftRatio, dt) ==
    LET pitchBias       == Rnd(pitch * 3, 10)
        effectiveTarget == clamp(targetHeightOf(liftRatio) + pitchBias, 0, MAST_LENGTH)
        heightError     == effectiveTarget - rideHeight
        heightAccel     == heightError * HEIGHT_SPRING - rideHeightVel * HEIGHT_DAMPING
        vel             == rideHeightVel + Rnd(heightAccel * dt, TicksPerSec)
        h               == rideHeight + Rnd(vel * dt, TicksPerSec)
    IN  [rideHeight |-> Max(0, Min(MAST_LENGTH, h)), rideHeightVel |-> vel]

\* the ride height step without the clamp to the mast
rideHeightStepUnclamped(rideHeight, rideHeightVel, pitch, liftRatio, dt) ==
    LET pitchBias       == Rnd(pitch * 3, 10)
        effectiveTarget == clamp(targetHeightOf(liftRatio) + pitchBias, 0, MAST_LENGTH)
        heightError     == effectiveTarget - rideHeight
        heightAccel     == heightError * HEIGHT_SPRING - rideHeightVel * HEIGHT_DAMPING
        vel             == rideHeightVel + Rnd(heightAccel * dt, TicksPerSec)
        h               == rideHeight + Rnd(vel * dt, TicksPerSec)
        minRideHeight   == IF liftRatio > 1000 THEN 120000 ELSE 0
    IN  [rideHeight |-> Max(minRideHeight, h), rideHeightVel |-> vel]

\* main.ts:1669-1685  ride height spring-damper: [rideHeight, rideHeightVel]
rideHeightStep(rideHeight, rideHeightVel, pitch, liftRatio, dt) ==
    LET pitchBias       == Rnd(pitch * 3, 10)
        effectiveTarget == clamp(targetHeightOf(liftRatio) + pitchBias, 0, MAST_LENGTH)
        heightError     == effectiveTarget - rideHeight
        heightAccel     == heightError * HEIGHT_SPRING - rideHeightVel * HEIGHT_DAMPING
        vel             == rideHeightVel + Rnd(heightAccel * dt, TicksPerSec)
        h               == rideHeight + Rnd(vel * dt, TicksPerSec)
        minRideHeight   == IF liftRatio > 1000 THEN 120000 ELSE 0
    IN  [rideHeight |-> Max(minRideHeight, Min(MAST_LENGTH, h)), rideHeightVel |-> vel]

\* the crash test without the stall branch
crashesHardFloorOnly(rideHeight, speed, foil) == rideHeight <= 1000

\* main.ts:1691-1701  the crash test on the integrated ride height and speed
crashes(rideHeight, speed, foil) ==
    \/ rideHeight <= 1000
    \/ rideHeight < 50000 /\ speed < foil.stallSpeed

\* main.ts:1573-1596  roll spring-damper with wave torque, and pitch spring.
\* c holds the step's inputs (fs, inp, foil, dt clamped, t, env, the wave
\* sample and the speed at the start of the step); each part of the step
\* adds what it computes
stepAttitude(c) ==
    LET waveTorque == 10 * MulRnd(c.wave.heightDiff, WAVE_TORQUE_GAIN * 100, c.foil.wingSpan)
        rollError  == targetRollOf(c.inp) - c.fs.roll
        rollAccel  == rollError * ROLL_SPRING - c.fs.rollRate * ROLL_DAMPING + waveTorque
        rollRate   == c.fs.rollRate + Rnd(rollAccel * c.dt, TicksPerSec)
    IN  c @@ [rollRate |-> rollRate,
              roll     |-> clamp(c.fs.roll + Rnd(rollRate * c.dt, TicksPerSec),
                                 -Div(MAX_ROLL * 12, 10), Div(MAX_ROLL * 12, 10)),
              pitch    |-> c.fs.pitch
                           + Rnd((targetPitchOf(c.inp) - c.fs.pitch) * 5 * c.dt, TicksPerSec)]

\* main.ts:1598-1634  lift, drag and wave force, and the turn
stepForces(c) ==
    LET liftMag == liftMagOf(c.foil, c.speed)
    IN  c @@ [liftMag |-> liftMag,
              force   |-> forceOf(c.fs, c.speed,
                                  dragMagOf(c.foil, c.speed, c.fs.rideHeight), c.wave),
              heading |-> headingAfterTurn(c.fs.heading, c.roll, c.speed, liftMag,
                                           c.foil, c.dt)]

\* main.ts:1636-1649  pump, and energy regeneration
stepPump(c) ==
    IF pumpFires(c.inp, c.fs, c.t, c.env)
    THEN c @@ [velocity     |-> Add(c.fs.velocity,
                                    Scale(headingToDir(c.heading), PUMP_IMPULSE)),
               energy       |-> energyRegen(c.fs.energy - PUMP_COST, c.dt),
               lastPumpTime |-> c.t,
               rideHeight   |-> Min(c.fs.rideHeight + 50000, MAST_LENGTH)]
    ELSE c @@ [velocity     |-> c.fs.velocity,
               energy       |-> energyRegen(c.fs.energy, c.dt),
               lastPumpTime |-> c.fs.lastPumpTime,
               rideHeight   |-> c.fs.rideHeight]

\* main.ts:1651-1661  velocity, and lateral slip
stepIntegrate(c) ==
    LET vInt == [x |-> c.velocity.x
                       + MulRnd(c.force.x, 100 * c.dt, RIDER_MASS * TicksPerSec),
                 y |-> 0,
                 z |-> c.velocity.z
                       + MulRnd(c.force.z, 100 * c.dt, RIDER_MASS * TicksPerSec)]
    IN  [c EXCEPT !.velocity = slipDecay(vInt, c.heading, c.dt)]

\* a step that adds the speed it ends with, times dt, to the path
stepPositionEndSpeed(c) ==
    c @@ [position |-> [x |-> c.fs.position.x + Rnd(c.velocity.x * c.dt, TicksPerSec),
                        y |-> c.fs.position.y + Rnd(c.velocity.y * c.dt, TicksPerSec),
                        z |-> c.fs.position.z + Rnd(c.velocity.z * c.dt, TicksPerSec)],
          distanceTravelled |-> c.fs.distanceTravelled
                                + Rnd(Length(c.velocity) * c.dt, TicksPerSec)]

\* main.ts:1663-1665  position and path length
stepPosition(c) ==
    c @@ [position |-> [x |-> c.fs.position.x + Rnd(c.velocity.x * c.dt, TicksPerSec),
                        y |-> c.fs.position.y + Rnd(c.velocity.y * c.dt, TicksPerSec),
                        z |-> c.fs.position.z + Rnd(c.velocity.z * c.dt, TicksPerSec)],
          distanceTravelled |-> c.fs.distanceTravelled + Rnd(c.speed * c.dt, TicksPerSec)]

\* main.ts:1667-1687  ride height, and the speed at the end of the step
stepHeight(c) ==
    c @@ [rh       |-> rideHeightStep(c.rideHeight, c.fs.rideHeightVel, c.pitch,
                                      liftRatioOf(c.liftMag), c.dt),
          speedEnd |-> Length(c.velocity)]

\* the end of a step whose crash leaves the ride height the step computed
stepCrashKeepsHeight(c) ==
    LET crashed == crashes(c.rh.rideHeight, c.speedEnd, c.foil)
    IN  [foilState |->
            [position |-> c.position, velocity |-> c.velocity, heading |-> c.heading,
             pitch |-> c.pitch, roll |-> c.roll, rollRate |-> c.rollRate,
             rideHeight |-> c.rh.rideHeight,
             rideHeightVel |-> c.rh.rideHeightVel,
             onFoil |-> IF crashed THEN FALSE ELSE c.fs.onFoil,
             energy |-> c.energy,
             speed |-> c.speedEnd,
             lastPumpTime |-> c.lastPumpTime,
             distanceTravelled |-> c.distanceTravelled],
         gameState |-> IF crashed THEN "crashed" ELSE "riding",
         input |-> [c.inp EXCEPT !.pump = FALSE]]

\* the end of a step that clears the pump intent only if the pump fired
stepCrashKeepsIntent(c) ==
    LET crashed == crashes(c.rh.rideHeight, c.speedEnd, c.foil)
    IN  [foilState |->
            [position |-> c.position, velocity |-> c.velocity, heading |-> c.heading,
             pitch |-> c.pitch, roll |-> c.roll, rollRate |-> c.rollRate,
             rideHeight |-> IF crashed THEN 0 ELSE c.rh.rideHeight,
             rideHeightVel |-> c.rh.rideHeightVel,
             onFoil |-> IF crashed THEN FALSE ELSE c.fs.onFoil,
             energy |-> c.energy,
             speed |-> c.speedEnd,
             lastPumpTime |-> c.lastPumpTime,
             distanceTravelled |-> c.distanceTravelled],
         gameState |-> IF crashed THEN "crashed" ELSE "riding",
         input |-> IF c.lastPumpTime = c.t THEN [c.inp EXCEPT !.pump = FALSE] ELSE c.inp]

\* main.ts:1646 and 1689-1701  crash check: the rider, game state and input
\* after the step
stepCrash(c) ==
    LET crashed == crashes(c.rh.rideHeight, c.speedEnd, c.foil)
    IN  [foilState |->
            [position |-> c.position, velocity |-> c.velocity, heading |-> c.heading,
             pitch |-> c.pitch, roll |-> c.roll, rollRate |-> c.rollRate,
             rideHeight |-> IF crashed THEN 0 ELSE c.rh.rideHeight,
             rideHeightVel |-> c.rh.rideHeightVel,
             onFoil |-> IF crashed THEN FALSE ELSE c.fs.onFoil,
             energy |-> c.energy,
             speed |-> c.speedEnd,
             lastPumpTime |-> c.lastPumpTime,
             distanceTravelled |-> c.distanceTravelled],
         gameState |-> IF crashed THEN "crashed" ELSE "riding",
         input |-> [c.inp EXCEPT !.pump = FALSE]]

\* the record a step starts from: the clamped dt (main.ts:1567), the speed
\* (main.ts:1570), the preset (main.ts:1569) and the wave sample (main.ts:1582)
\* all read before the rider is written
stepStart(fs, inp, foil, dt0, t, windSpeed, env) ==
    [fs |-> fs, inp |-> inp, foil |-> foil, dt |-> Min(dt0, DT_MAX), t |-> t, env |-> env,
     wave |-> sampleWaveAtFoilPoints(fs, foil, t, windSpeed),
     speed |-> Length(fs.velocity)]

\* main.ts:1567-1702  the physics step of a riding foil
physicsStep(fs, inp, foilName, dt0, t, windSpeed, env) ==
    stepCrash(stepHeight(stepPosition(stepIntegrate(stepPump(stepForces(stepAttitude(
        stepStart(fs, inp, FOIL_PRESETS[foilName], dt0, t, windSpeed, env))))))))

\* updatePhysics without its early return
updatePhysicsUnguarded(fs, gs, inp, foilName, dt0, t, windSpeed, env) ==
    physicsStep(fs, inp, foilName, dt0, t, windSpeed, env)

\* main.ts:1564-1702  updatePhysics(dt, time)
updatePhysics(fs, gs, inp, foilName, dt0, t, windSpeed, env) ==
    IF gs # "riding" THEN [foilState |-> fs, gameState |-> gs, input |-> inp]
    ELSE physicsStep(fs, inp, foilName, dt0, t, windSpeed, env)

----------------------------------------------------------------------------
(* Race tracker, main.ts:143-192 and 1800-1845 *)

\* main.ts:166-175
resetRace ==
    [active |-> FALSE, finished |-> FALSE, startTime |-> 0, kmSplitTimes |-> <<>>,
     lastKmReached |-> 0, totalElapsed |-> 0, splitFlashText |-> <<>>,
     splitFlashTimer |-> 0]

\* startRace that does not take the clock time
startRaceAtZero(clockTime) ==
    [active |-> TRUE, finished |-> FALSE, startTime |-> 0, kmSplitTimes |-> <<>>,
     lastKmReached |-> 0, totalElapsed |-> 0, splitFlashText |-> <<>>,
     splitFlashTimer |-> 0]

\* main.ts:177-186
startRace(clockTime) ==
    [active |-> TRUE, finished |-> FALSE, startTime |-> clockTime, kmSplitTimes |-> <<>>,
     lastKmReached |-> 0, totalElapsed |-> 0, splitFlashText |-> <<>>,
     splitFlashTimer |-> 0]

\* fmtTime that rounds to the tenth below
fmtTimeTruncated(seconds, env) ==
    <<seconds \div (60 * TicksPerSec),
      ((seconds % (60 * TicksPerSec)) * 10) \div TicksPerSec>>

\* main.ts:188-192  m:ss.s as <<minutes, tenths of a second>>.  toFixed(1)
\* rounds the double to the nearest tenth; a time that the clock puts exactly
\* halfway between two tenths goes up or down as its double falls,
\* env.roundUp
fmtTime(seconds, env) ==
    LET m     == seconds \div (60 * TicksPerSec)
        s     == seconds % (60 * TicksPerSec)
        below == (s * 10) \div TicksPerSec
        rest  == (s * 10) % TicksPerSec
    IN  <<m, IF 2 * rest > TicksPerSec \/ (2 * rest = TicksPerSec /\ env.roundUp)
             THEN below + 1 ELSE below>>

\* the split loop stopping one km short (k < Math.min(...))
RECURSIVE splitLoopShort(_, _, _, _)
splitLoopShort(rc, k, kmReached, env) ==
    IF k >= Min(kmReached, RACE_LENGTH_KM) THEN rc
    ELSE LET times == Append(rc.kmSplitTimes, rc.totalElapsed)
             prev  == IF Len(times) > 1 THEN times[Len(times) - 1] ELSE 0
             split == rc.totalElapsed - prev
         IN  splitLoopShort([rc EXCEPT !.kmSplitTimes = times,
                                       !.splitFlashText = <<k>> \o fmtTime(split, env),
                                       !.splitFlashTimer = 3 * TicksPerSec,
                                       !.lastKmReached = k],
                            k + 1, kmReached, env)

\* the split loop running one km ahead of the distance covered
RECURSIVE splitLoopEarly(_, _, _, _)
splitLoopEarly(rc, k, kmReached, env) ==
    IF k > Min(kmReached + 1, RACE_LENGTH_KM) THEN rc
    ELSE LET times == Append(rc.kmSplitTimes, rc.totalElapsed)
             prev  == IF Len(times) > 1 THEN times[Len(times) - 1] ELSE 0
             split == rc.totalElapsed - prev
         IN  splitLoopEarly([rc EXCEPT !.kmSplitTimes = times,
                                       !.splitFlashText = <<k>> \o fmtTime(split, env),
                                       !.splitFlashTimer = 3 * TicksPerSec,
                                       !.lastKmReached = k],
                            k + 1, kmReached, env)

\* main.ts:1816-1823  the split loop from km k on
RECURSIVE splitLoop(_, _, _, _)
splitLoop(rc, k, kmReached, env) ==
    IF k > Min(kmReached, RACE_LENGTH_KM) THEN rc
    ELSE LET times == Append(rc.kmSplitTimes, rc.totalElapsed)
             prev  == IF Len(times) > 1 THEN times[Len(times) - 1] ELSE 0
             split == rc.totalElapsed - prev
         IN  splitLoop([rc EXCEPT !.kmSplitTimes = times,
                                  !.splitFlashText = <<k>> \o fmtTime(split, env),
                                  !.splitFlashTimer = 3 * TicksPerSec,
                                  !.lastKmReached = k],
                       k + 1, kmReached, env)

\* main.ts:1835-1837  the finish backfill
RECURSIVE backfill(_)
backfill(rc) ==
    IF Len(rc.kmSplitTimes) < RACE_LENGTH_KM
    THEN backfill([rc EXCEPT !.kmSplitTimes = Append(@, rc.totalElapsed)])
    ELSE rc

\* the finish block without the reset of the flash timer
finishRaceKeepsFlash(rc, t) ==
    backfill([rc EXCEPT !.finished = TRUE, !.active = FALSE,
                        !.totalElapsed = t - rc.startTime])

\* main.ts:1829-1837  the finish block (showRaceResults apart)
finishRace(rc, t) ==
    backfill([rc EXCEPT !.finished = TRUE, !.active = FALSE,
                        !.totalElapsed = t - rc.startTime,
                        !.splitFlashTimer = 0])

\* the auto-start guard without the test of gameState
autoStartAnyState(rc, gs) == ~rc.active /\ ~rc.finished

\* the auto-start guard without the test of race.finished
autoStartAfterFinish(rc, gs) == gs = "riding" /\ ~rc.active

\* main.ts:1802  the auto-start guard
autoStart(rc, gs) == gs = "riding" /\ ~rc.active /\ ~rc.finished

\* main.ts:1829  the finish test
finishReached(dwind) == dwind >= RACE_LENGTH_KM * KM

\* updateRace without its crash block
updateRaceKeepsCrashed(rc0, gs, fs, dt, t, env) ==
    LET rc1 == IF autoStart(rc0, gs) THEN startRace(t) ELSE rc0
    IN  IF ~rc1.active THEN [race |-> rc1, results |-> FALSE]
        ELSE
        LET rc2       == [rc1 EXCEPT !.totalElapsed = t - rc1.startTime]
            dwind     == downwindDist(fs)
            kmReached == dwind \div KM
            rc3       == splitLoop(rc2, rc2.lastKmReached + 1, kmReached, env)
            rc4       == IF rc3.splitFlashTimer > 0
                         THEN [rc3 EXCEPT !.splitFlashTimer = @ - dt] ELSE rc3
            finish    == finishReached(dwind)
            rc5       == IF finish THEN finishRace(rc4, t) ELSE rc4
        IN  [race |-> rc5, results |-> finish]

\* main.ts:1800-1845  updateRace(dt, time): the race after the update, and
\* whether showRaceResults was called
updateRace(rc0, gs, fs, dt, t, env) ==
    LET rc1 == IF autoStart(rc0, gs) THEN startRace(t) ELSE rc0
    IN  IF ~rc1.active THEN [race |-> rc1, results |-> FALSE]
        ELSE
        LET rc2       == [rc1 EXCEPT !.totalElapsed = t - rc1.startTime]
            dwind     == downwindDist(fs)
            kmReached == dwind \div KM
            rc3       == splitLoop(rc2, rc2.lastKmReached + 1, kmReached, env)
            rc4       == IF rc3.splitFlashTimer > 0
                         THEN [rc3 EXCEPT !.splitFlashTimer = @ - dt] ELSE rc3
            finish    == finishReached(dwind)
            rc5       == IF finish THEN finishRace(rc4, t) ELSE rc4
            rc6       == IF gs = "crashed" THEN [rc5 EXCEPT !.active = FALSE] ELSE rc5
        IN  [race |-> rc6, results |-> finish]

----------------------------------------------------------------------------
(* High scores, main.ts:194-233.  The stored list is what JSON.parse gives *)
(* of the localStorage item, which outlives the page: any list.            *)

\* an element of the stored list: time in ticks where it is a number;
\* nullish for null, whose fields cannot be read
StoredEntry(t, typeofTime, typeofDate, nullish) ==
    [time |-> t, typeofTime |-> typeofTime, typeofDate |-> typeofDate, nullish |-> nullish]

\* main.ts:223  { time, date: new Date().toISOString() }
HighScoreEntry(t) == StoredEntry(t, "number", "string", FALSE)

\* main.ts:213  the filter of loadHighScores
validEntry(e) == e.typeofTime = "number" /\ e.typeofDate = "string"

\* Array.prototype.filter
RECURSIVE filterValid(_)
filterValid(list) ==
    IF list = <<>> THEN <<>>
    ELSE IF validEntry(Head(list)) THEN <<Head(list)>> \o filterValid(Tail(list))
    ELSE filterValid(Tail(list))

\* a sorted list with one more entry sorted in, behind the entries of the
\* same time (Array.prototype.sort is stable)
RECURSIVE insertByTime(_, _)
insertByTime(scores, e) ==
    IF scores = <<>> THEN <<e>>
    ELSE IF e.time < Head(scores).time THEN <<e>> \o scores
    ELSE <<Head(scores)>> \o insertByTime(Tail(scores), e)

\* Array.prototype.sort((a, b) => a.time - b.time)
RECURSIVE sortByTime(_)
sortByTime(list) ==
    IF list = <<>> THEN <<>>
    ELSE insertByTime(sortByTime(SubSeq(list, 1, Len(list) - 1)), list[Len(list)])

\* Array.prototype.slice(0, n)
slice(list, n) == SubSeq(list, 1, Min(Len(list), n))

\* loadHighScores that takes the stored list as it stands
loadHighScoresAsStored(stored) == slice(stored, HIGH_SCORE_MAX)

\* main.ts:206-219  loadHighScores(km): the valid entries of the stored list,
\* sorted by time, the first HIGH_SCORE_MAX of them; [] when reading an
\* element throws (main.ts:217)
loadHighScores(stored) ==
    IF \E i \in 1..Len(stored) : stored[i].nullish THEN <<>>
    ELSE slice(sortByTime(filterValid(stored)), HIGH_SCORE_MAX)

\* a save that trims the loaded list before it sorts the new entry in
saveHighScoreTrimFirst(stored, t, env) ==
    LET scores == insertByTime(slice(loadHighScores(stored), HIGH_SCORE_MAX - 1),
                               HighScoreEntry(t))
    IN  [stored |-> IF env.setItemThrows THEN stored ELSE slice(scores, HIGH_SCORE_MAX),
         rank   |-> Cardinality({i \in 1..Len(scores) : scores[i].time <= t}),
         isNew  |-> Cardinality({i \in 1..Len(scores) : scores[i].time <= t}) <= HIGH_SCORE_MAX]

\* a save that writes the list whether localStorage takes it or not
saveHighScoreAlwaysStored(stored, t, env) ==
    LET scores == insertByTime(loadHighScores(stored), HighScoreEntry(t))
    IN  [stored |-> slice(scores, HIGH_SCORE_MAX),
         rank   |-> Cardinality({i \in 1..Len(scores) : scores[i].time <= t}),
         isNew  |-> Cardinality({i \in 1..Len(scores) : scores[i].time <= t}) <= HIGH_SCORE_MAX]

\* main.ts:221-233  saveHighScore(km, time): the list stored afterwards, and
\* the rank and isNew returned.  The new entry is pushed and sorted in behind
\* the loaded entries of the same time, so its rank is the number of entries
\* up to its time; setItem may throw (quota), which is swallowed and leaves
\* the stored list as it was, env.setItemThrows
saveHighScore(stored, t, env) ==
    LET scores == insertByTime(loadHighScores(stored), HighScoreEntry(t))
    IN  [stored |-> IF env.setItemThrows THEN stored ELSE slice(scores, HIGH_SCORE_MAX),
         rank   |-> Cardinality({i \in 1..Len(scores) : scores[i].time <= t}),
         isNew  |-> Cardinality({i \in 1..Len(scores) : scores[i].time <= t}) <= HIGH_SCORE_MAX]


----------------------------------------------------------------------------
(* State after construction, reset and launch *)

\* main.ts:124-138  foilState as constructed
spawnFoilState ==
    [position |-> SPAWN_POINT, velocity |-> [x |-> 0, y |-> 0, z |-> 0],
     heading |-> 0, pitch |-> 0, roll |-> 0, rollRate |-> 0,
     rideHeight |-> 350000, rideHeightVel |-> 0, onFoil |-> TRUE,
     energy |-> ENERGY_MAX, speed |-> 0, lastPumpTime |-> -10 * TicksPerSec,
     distanceTravelled |-> 0]

\* main.ts:155-164  race as constructed
initialRace ==
    [active |-> FALSE, finished |-> FALSE, startTime |-> 0, kmSplitTimes |-> <<>>,
     lastKmReached |-> 0, totalElapsed |-> 0, splitFlashText |-> <<>>,
     splitFlashTimer |-> 0]

\* main.ts:236-242
initialInput == [left |-> FALSE, right |-> FALSE, up |-> FALSE, down |-> FALSE, pump |-> FALSE]

\* The program's variables as one record p, on which the handlers operate
Prog ==
    [foilState |-> foilState, gameState |-> gameState, race |-> race, input |-> input,
     activeFoil |-> activeFoil, PARAMS |-> PARAMS, highScores |-> highScores,
     finishOverlay |-> finishOverlay]

\* resetFoilState that leaves distanceTravelled as it is
resetFoilStateKeepsDistance(p) ==
    [p EXCEPT !.foilState =
                  [@ EXCEPT !.position = SPAWN_POINT,
                            !.velocity = [x |-> 0, y |-> 0, z |-> 0],
                            !.heading = 0, !.pitch = 0, !.roll = 0, !.rollRate = 0,
                            !.rideHeight = 350000, !.rideHeightVel = 0, !.onFoil = TRUE,
                            !.energy = ENERGY_MAX, !.speed = 0,
                            !.lastPumpTime = -10 * TicksPerSec],
              !.gameState = "starting",
              !.race = resetRace,
              !.finishOverlay = FALSE]

\* main.ts:256-279  resetFoilState(): rider, game state, race and overlay
resetFoilState(p) ==
    [p EXCEPT !.foilState =
                  [@ EXCEPT !.position = SPAWN_POINT,
                            !.velocity = [x |-> 0, y |-> 0, z |-> 0],
                            !.heading = 0, !.pitch = 0, !.roll = 0, !.rollRate = 0,
                            !.rideHeight = 350000, !.rideHeightVel = 0, !.onFoil = TRUE,
                            !.energy = ENERGY_MAX, !.speed = 0,
                            !.lastPumpTime = -10 * TicksPerSec,
                            !.distanceTravelled = 0],
              !.gameState = "starting",
              !.race = resetRace,
              !.finishOverlay = FALSE]

\* a launch at the 10.5 m/s of the race foil whatever foil is selected
launchFoilRaceSpeed(p) ==
    LET initialSpeed == Div(FOIL_PRESETS["High Aspect Race"].stallSpeed * 15, 10)
    IN  [p EXCEPT !.foilState =
                      [@ EXCEPT !.velocity = Scale(headingToDir(p.foilState.heading),
                                                   initialSpeed),
                                !.rideHeight = 350000, !.onFoil = TRUE],
                  !.gameState = "riding"]

\* main.ts:281-288  launchFoil()
launchFoil(p) ==
    LET initialSpeed == Div(FOIL_PRESETS[p.activeFoil].stallSpeed * 15, 10)
    IN  [p EXCEPT !.foilState =
                      [@ EXCEPT !.velocity = Scale(headingToDir(p.foilState.heading),
                                                   initialSpeed),
                                !.rideHeight = 350000, !.onFoil = TRUE],
                  !.gameState = "riding"]

----------------------------------------------------------------------------
(* Handlers *)

\* e.code of the arrow keys and the input field each one holds
ArrowInput ==
    [ArrowLeft |-> "left", ArrowRight |-> "right", ArrowUp |-> "up", ArrowDown |-> "down"]
ArrowKeys == DOMAIN ArrowInput

\* Space that queues a pump in every game state but starting
keydownSpaceQueuesCrashed(p) ==
    IF p.gameState = "starting" THEN launchFoil(p)
    ELSE [p EXCEPT !.input.pump = TRUE]

\* main.ts:1531-1538  keydown, case 'Space'
keydownSpace(p) ==
    IF p.gameState = "starting" THEN launchFoil(p)
    ELSE IF p.gameState = "riding" THEN [p EXCEPT !.input.pump = TRUE]
    ELSE p

\* keydownR without its game-state test
keydownRAnyState(p) == resetFoilState(p)

\* main.ts:1539-1543  keydown, case 'KeyR'
keydownR(p) == IF p.gameState = "crashed" THEN resetFoilState(p) ELSE p

\* main.ts:1525-1551  the keydown listener
keydown(code, p) ==
    IF code \in ArrowKeys THEN [p EXCEPT !.input[ArrowInput[code]] = TRUE]
    ELSE IF code = "Space" THEN keydownSpace(p)
    ELSE IF code = "KeyR" THEN keydownR(p)
    ELSE p

\* main.ts:1553-1560  the keyup listener
keyup(code, p) ==
    IF code \in ArrowKeys THEN [p EXCEPT !.input[ArrowInput[code]] = FALSE] ELSE p

\* a foil drop-down that puts the rider back at the start with the new foil
selectFoilAndReset(n, p) == resetFoilState([p EXCEPT !.activeFoil = n])

\* main.ts:1075-1077  onChange of the foil drop-down
selectFoil(n, p) == [p EXCEPT !.activeFoil = n]

\* main.ts:1078  the wind slider of the GUI writes PARAMS.windSpeed
setWindSpeed(v, p) == [p EXCEPT !.PARAMS.windSpeed = v]

\* main.ts:956-1003  showRaceResults(): high scores saved, overlay shown
showRaceResults(p, env) ==
    [p EXCEPT !.highScores = saveHighScore(@, p.race.totalElapsed, env).stored,
              !.finishOverlay = TRUE]

\* a race update that shows the results in every frame of a finished race
raceUpdateWhileFinished(p, r, env) ==
    IF r.race.finished THEN showRaceResults([p EXCEPT !.race = r.race], env)
    ELSE [p EXCEPT !.race = r.race]

\* main.ts:1871  updateRace(dt, time) on the program's variables
raceUpdate(p, r, env) ==
    IF r.results THEN showRaceResults([p EXCEPT !.race = r.race], env)
    ELSE [p EXCEPT !.race = r.race]

\* main.ts:1868  updatePhysics(dt, time) on the program's variables
physicsUpdate(p, ph) ==
    [p EXCEPT !.foilState = ph.foilState, !.gameState = ph.gameState, !.input = ph.input]

\* the race update of a frame
animateRace(p, dt, t, env) ==
    raceUpdate(p, updateRace(p.race, p.gameState, p.foilState, dt, t, env), env)

\* the physics step of a frame, at the wind of the GUI
animatePhysics(p, dt, t, env) ==
    physicsUpdate(p, updatePhysics(p.foilState, p.gameState, p.input, p.activeFoil,
                                   dt, t, p.PARAMS.windSpeed, env))

\* a frame whose race update runs before its physics step
animateRaceFirst(p, dt, t, env) == animatePhysics(animateRace(p, dt, t, env), dt, t, env)

\* main.ts:1851-1871  animate(): physics step, then race update, at clock
\* time t
animate(p, dt, t, env) == animateRace(animatePhysics(p, dt, t, env), dt, t, env)

----------------------------------------------------------------------------

----------------------------------------------------------------------------
(* Inputs *)

\* what a frame takes from the rounding of the clock and from the browser:
\* whether a pump exactly PUMP_COOLDOWN after the last one fires, whether a
\* time halfway between two tenths is printed up, whether setItem throws
Envs == [pumpAtTie : BOOLEAN, roundUp : BOOLEAN, setItemThrows : BOOLEAN]

\* clock.getDelta() of a free frame: 1/60 s, and a slow 0.4 s frame
DtSet == {DT_MAX \div 2, 12 * DT_MAX}

KeyCodes == ArrowKeys \cup {"Space", "KeyR"}

\* main.ts:1078  positions of the wind slider (0.1 to 3.0): 0.1, 1.0, 2.0, 3.0
WindSettings == {10, 100, 200, 300}

\* lists found in localStorage when the page loads: none, one written by
\* the program, one written out of order by another version of the page
StoredSamples ==
    {<<>>,
     <<HighScoreEntry(30 * TicksPerSec)>>,
     <<HighScoreEntry(90 * TicksPerSec), HighScoreEntry(30 * TicksPerSec),
       StoredEntry(0, "string", "string", FALSE), HighScoreEntry(60 * TicksPerSec)>>}

(***************************************************************************)
(* The run.  The behaviours checked from construction are those of one     *)
(* ride, frame by frame at 1/30 s, at the wind the page loads with: launch *)
(* on the race foil at clock 0, Space before the frames 3, 14, 25, 36 and  *)
(* 47, no other input; the foil slows down and stalls in frame 155.  At    *)
(* the clock times of FreeAt the run may be left for up to MaxKeys key or  *)
(* GUI events and MaxFrames frames of any input.                           *)
(***************************************************************************)
PumpAt == {2 * DT_MAX, 13 * DT_MAX, 24 * DT_MAX, 35 * DT_MAX, 46 * DT_MAX}
RunEnd == 155 * DT_MAX
FreeAt == {0, 13 * DT_MAX, 50 * DT_MAX, RunEnd}

(***************************************************************************)
(* The finish.  A race takes some 2000 frames.  The behaviours checked at  *)
(* the finish line start one frame before it, in the state of this ride:   *)
(* wind slider at 2.0, launch on the race foil at clock 0, frames of       *)
(* 1/30 s without input, the wind slider put to 0.1 before frame 1866;     *)
(* after frame 2048 the rider is 97 mm short of the line, 2.4 mm above the *)
(* stall height and below the stall speed.                                 *)
(***************************************************************************)
CheckpointClock == 2048 * DT_MAX

checkpointFoilState ==
    [position |-> [x |-> 199585, y |-> 0, z |-> 199903],
     velocity |-> [x |-> 344, y |-> 0, z |-> 5713],
     heading |-> 3201362, pitch |-> 0, roll |-> 24, rollRate |-> -1,
     rideHeight |-> 51242, rideHeightVel |-> -59577, onFoil |-> TRUE,
     energy |-> ENERGY_MAX, speed |-> 5723, lastPumpTime |-> -10 * TicksPerSec,
     distanceTravelled |-> 1031040]

\* the race of that ride: started in the first frame, at the clock of that frame
checkpointRace ==
    [startRace(DT_MAX) EXCEPT !.totalElapsed = CheckpointClock - DT_MAX]

\* more than a rider covers in one physics step: dt at 1000 m/s, where the
\* drag of either preset is many times the largest force of a wave
StrideMax == Div(Micro * DT_MAX, TicksPerSec)

\* the outcomes a frame of dt can hang on in the state it starts from, the
\* others left FALSE: the pump tie takes a pump intent at the tie, the
\* rounding of a split and the write to localStorage take a rider who can
\* reach the next km mark in this frame
EnvsAt(dt) ==
    {env \in Envs :
        /\ env.pumpAtTie =>
               input.pump /\ time + dt - foilState.lastPumpTime = PUMP_COOLDOWN
        /\ env.roundUp \/ env.setItemThrows =>
               /\ gameState = "riding"
               /\ (downwindDist(foilState) + StrideMax) \div KM > race.lastKmReached}

OnRun == frames = 0 /\ keys = 0
Free == ~OnRun \/ time \in FreeAt \/ time >= CheckpointClock

----------------------------------------------------------------------------
(* Actions *)

\* no function is called on its own in a run of the program
NoCall == [fn |-> "none"]

Becomes(p) ==
    /\ foilState' = p.foilState
    /\ gameState' = p.gameState
    /\ race' = p.race
    /\ input' = p.input
    /\ activeFoil' = p.activeFoil
    /\ PARAMS' = p.PARAMS
    /\ highScores' = p.highScores
    /\ finishOverlay' = p.finishOverlay

\* a keydown event
KeyDown(code) ==
    /\ Free /\ keys < MaxKeys
    /\ keys' = keys + 1
    /\ Becomes(keydown(code, Prog))
    /\ UNCHANGED <<time, frames, call>>

\* a keyup event of a held arrow key
KeyUp(code) ==
    /\ Free /\ keys < MaxKeys
    /\ input[ArrowInput[code]]
    /\ keys' = keys + 1
    /\ Becomes(keyup(code, Prog))
    /\ UNCHANGED <<time, frames, call>>

\* the foil drop-down of the GUI
SelectFoil(n) ==
    /\ Free /\ keys < MaxKeys
    /\ keys' = keys + 1
    /\ Becomes(selectFoil(n, Prog))
    /\ UNCHANGED <<time, frames, call>>

\* the wind slider of the GUI
SetWind(v) ==
    /\ Free /\ keys < MaxKeys
    /\ keys' = keys + 1
    /\ Becomes(setWindSpeed(v, Prog))
    /\ UNCHANGED <<time, frames, call>>

\* one animation frame of dt
Frame(dt, env) ==
    /\ Free /\ frames < MaxFrames
    /\ frames' = frames + 1
    /\ time' = time + dt
    /\ Becomes(animate(Prog, dt, time + dt, env))
    /\ UNCHANGED <<keys, call>>

\* Space on the run: the launch, and the pumps
RunSpace ==
    /\ OnRun /\ time < RunEnd
    /\ \/ gameState = "starting" /\ time = 0
       \/ gameState = "riding" /\ time \in PumpAt /\ ~input.pump
    /\ Becomes(keydown("Space", Prog))
    /\ UNCHANGED <<time, frames, keys, call>>

\* a frame of the run
RunFrame ==
    /\ OnRun /\ time < RunEnd
    /\ gameState = "riding"
    /\ input.pump <=> time \in PumpAt
    /\ time' = time + DT_MAX
    /\ \E env \in EnvsAt(DT_MAX) : Becomes(animate(Prog, DT_MAX, time + DT_MAX, env))
    /\ UNCHANGED <<frames, keys, call>>

----------------------------------------------------------------------------
(* Specification *)

Init ==
    /\ foilState = spawnFoilState
    /\ gameState = "starting"
    /\ race = initialRace
    /\ input = initialInput
    /\ activeFoil = "High Aspect Race"
    /\ PARAMS = [windSpeed |-> WIND_SPEED]
    /\ time = 0
    /\ highScores = <<>>
    /\ finishOverlay = FALSE
    /\ frames = 0
    /\ keys = 0
    /\ call = NoCall

Next ==
    \/ \E code \in KeyCodes : KeyDown(code)
    \/ \E code \in ArrowKeys : KeyUp(code)
    \/ \E n \in FoilNames : SelectFoil(n)
    \/ \E v \in WindSettings : SetWind(v)
    \/ \E dt \in DtSet : \E env \in EnvsAt(dt) : Frame(dt, env)
    \/ RunSpace
    \/ RunFrame

Spec == Init /\ [][Next]_vars

\* the ride picked up one frame before the finish line
InitFinish ==
    /\ foilState = checkpointFoilState
    /\ gameState = "riding"
    /\ race = checkpointRace
    /\ input = initialInput
    /\ activeFoil = "High Aspect Race"
    /\ PARAMS = [windSpeed |-> 10]
    /\ time = CheckpointClock
    /\ highScores \in StoredSamples
    /\ finishOverlay = FALSE
    /\ frames = 0
    /\ keys = 0
    /\ call = NoCall

NextFinish ==
    \/ \E code \in KeyCodes : KeyDown(code)
    \/ \E code \in ArrowKeys : KeyUp(code)
    \/ \E n \in FoilNames : SelectFoil(n)
    \/ \E v \in WindSettings : SetWind(v)
    \/ \E dt \in DtSet : \E env \in EnvsAt(dt) : Frame(dt, env)

SpecFinish == InitFinish /\ [][NextFinish]_vars

----------------------------------------------------------------------------
(* Properties *)

\* a step is a frame exactly when the clock moves
IsFrame == time' # time

\* the race update of a frame gets past its early return
RaceUpdates == IsFrame /\ (race.active \/ autoStart(race, gameState'))

\* an env of no tie and a localStorage that takes the write
Calm == [pumpAtTie |-> FALSE, roundUp |-> FALSE, setItemThrows |-> FALSE]

\* the dt of a frame, and its physics step without the pump intent
FrameDt == time' - time
StepWithoutPump ==
    physicsStep(foilState, [input EXCEPT !.pump = FALSE], activeFoil, FrameDt, time',
                PARAMS.windSpeed, Calm).foilState

\* this ride has finished and its time is on the stored list
SavedThisRide ==
    \E i \in 1..Len(highScores) :
        /\ highScores[i].time >= CheckpointClock - DT_MAX
        /\ highScores[i].time <= time - DT_MAX

\* a key handler leaves game state, rider and race as they are
Ignores(p) ==
    p.gameState = gameState /\ p.foilState = foilState /\ p.race = race

C1_Step ==
    gameState' # gameState =>
        \/ /\ gameState = "starting" /\ gameState' = "riding"
           /\ ~IsFrame /\ Prog' = keydownSpace(Prog)
        \/ /\ gameState = "riding" /\ gameState' = "crashed"
           /\ IsFrame
        \/ /\ gameState = "crashed" /\ gameState' = "starting"
           /\ ~IsFrame /\ Prog' = keydownR(Prog)

C1_Ignored ==
    /\ gameState = "crashed" => Ignores(keydown("Space", Prog))
    /\ gameState \in {"starting", "riding"} => Ignores(keydown("KeyR", Prog))

\* C1: gameState changes only from starting to riding by Space, from riding to
\* crashed inside a frame, and from crashed to starting by R; Space while
\* crashed and R while starting or riding change neither gameState, the rider
\* nor the race.
C1 == [][C1_Step]_vars /\ []C1_Ignored

\* a rider that was launched, crashed after the run and was restarted
C1_Witness == gameState = "starting" /\ time > RunEnd /\ frames > 0 /\ keys > 0

\* C2: while crashed, the rider and gameState change by no step but R; and a
\* frame changes neither the rider, gameState nor the input when gameState is
\* not riding.
C2 ==
    [][/\ gameState = "crashed" =>
              \/ foilState' = foilState /\ gameState' = "crashed"
              \/ ~IsFrame /\ Prog' = resetFoilState(Prog)
       /\ gameState # "riding" /\ IsFrame =>
              foilState' = foilState /\ gameState' = gameState /\ input' = input]_vars

\* crashed in a frame with the race on, and a later frame has run
C2_Witness ==
    /\ gameState = "crashed" /\ race.startTime > 0
    /\ time > race.startTime + race.totalElapsed

\* C3: R pressed while crashed leaves the rider, the race and gameState equal
\* to what they are at program start.
C3 ==
    [][gameState = "crashed" /\ gameState' # "crashed" =>
           foilState' = spawnFoilState /\ race' = initialRace /\ gameState' = "starting"]_vars

\* restarted after a crash on the finish line, which had left a distance, a
\* split and a finish time
C3_Witness ==
    /\ gameState = "starting" /\ SavedThisRide
    /\ foilState = spawnFoilState /\ race = initialRace

\* C4: energy stays within 0..100.
C4 == 0 <= foilState.energy /\ foilState.energy <= ENERGY_MAX

\* pumped down to less than the cost of a pump
C4_Witness == foilState.energy < PUMP_COST /\ foilState.lastPumpTime > 35 * DT_MAX

C5_Effect ==
    IsFrame /\ (foilState'.lastPumpTime # foilState.lastPumpTime
                \/ foilState'.energy < foilState.energy) =>
        /\ input.pump
        /\ foilState.energy >= PUMP_COST
        /\ time' - foilState.lastPumpTime >= PUMP_COOLDOWN
        /\ foilState'.lastPumpTime = time'
        /\ foilState'.energy =
               Min(ENERGY_MAX, foilState.energy - PUMP_COST
                   + Div(ENERGY_REGEN * EnergyScale * Min(FrameDt, DT_MAX), TicksPerSec))
        /\ LET dir  == headingToDir(foilState'.heading)
               gain == WideRnd(WideDot(Sub(foilState'.velocity, StepWithoutPump.velocity), dir, Unit),
                               Unit)
           IN  Abs(gain - PUMP_IMPULSE) <= 2

C5_Rejected ==
    /\ IsFrame /\ gameState = "riding" /\ input.pump
    /\ foilState'.lastPumpTime = foilState.lastPumpTime
    => /\ \/ foilState.energy < PUMP_COST
          \/ time' - foilState.lastPumpTime <= PUMP_COOLDOWN
       /\ \E env \in EnvsAt(FrameDt) :
              Prog' = animate([Prog EXCEPT !.input.pump = FALSE], FrameDt, time', env)

\* C5: a pump takes effect in a frame (speed along the heading raised by
\* PUMP_IMPULSE, energy lowered by 20, lastPumpTime set to the frame's time)
\* only if the pump intent is set, energy is at least 20 and at least 0.35 s have
\* passed since the last pump; a frame whose intent is rejected, which takes
\* too little energy or a time within the cooldown (at most 0.35 s by the
\* clock), ends in the state of the same frame without the intent.
C5 == [][C5_Effect /\ C5_Rejected]_vars

\* a pump fired 0.35 s by the clock after the one before, and the intent of
\* the next frame was rejected within the cooldown
C5_Witness ==
    /\ gameState = "riding" /\ frames = 2 /\ keys = 2 /\ input = initialInput
    /\ foilState.lastPumpTime = 3 * DT_MAX + PUMP_COOLDOWN
    /\ time > foilState.lastPumpTime
    /\ foilState.energy < ENERGY_MAX - 2 * PUMP_COST + 2 * PUMP_COOLDOWN

C6_Sorted ==
    \A i \in 1..(Len(race.kmSplitTimes) - 1) :
        race.kmSplitTimes[i] <= race.kmSplitTimes[i + 1]

C6_Step ==
    LET old == IF race.active THEN race.kmSplitTimes ELSE <<>>
        new == race'.kmSplitTimes
        dw  == downwindDist(foilState')
    IN  /\ RaceUpdates =>
              /\ Len(new) >= Len(old) /\ SubSeq(new, 1, Len(old)) = old
              /\ \A k \in (Len(old) + 1)..Len(new) :
                     new[k] = time' - race'.startTime /\ dw >= k * KM
              /\ \A k \in 1..RACE_LENGTH_KM : dw >= k * KM => Len(new) >= k
        /\ ~RaceUpdates => new = race.kmSplitTimes \/ new = <<>>

\* C6: kmSplitTimes is non-decreasing, and the split of km k is appended once,
\* by the first race update of an active race at which the downwind distance is
\* at least k km, with that update's elapsed time, and at no other step.
C6 == []C6_Sorted /\ [][C6_Step]_vars

\* a split recorded by a rider who rides on
C6_Witness ==
    gameState = "riding" /\ Len(race.kmSplitTimes) = 1 /\ race.lastKmReached = 1

C7_Step ==
    /\ RaceUpdates /\ downwindDist(foilState') >= RACE_LENGTH_KM * KM =>
           /\ race'.finished /\ ~race'.active /\ race'.splitFlashTimer = 0
           /\ Len(race'.kmSplitTimes) = RACE_LENGTH_KM
           /\ race'.kmSplitTimes[RACE_LENGTH_KM] = race'.totalElapsed
           /\ race'.totalElapsed = time' - race'.startTime
    /\ race.finished =>
           race' = race \/ (gameState = "crashed" /\ gameState' = "starting")

\* C7: a race update of an active race at a downwind distance of at least the
\* course length leaves the race finished and inactive, the flash timer 0,
\* courseLengthKm splits the last of which is totalElapsed, and totalElapsed
\* the frame's time less startTime; nothing changes the race afterwards until
\* the restart.
C7 == [][C7_Step]_vars

\* finished, and a later frame has run
C7_Witness ==
    /\ race.finished /\ gameState = "riding"
    /\ time > race.startTime + race.totalElapsed

\* C8: a frame in which the race is active and the rider crashes leaves the
\* race inactive and not finished.
C8 ==
    [][IsFrame /\ race.active /\ gameState = "riding" /\ gameState' = "crashed" =>
           ~race'.active /\ ~race'.finished]_vars

\* crashed in the frame that took the rider across the finish line
C8_Witness ==
    /\ gameState = "crashed" /\ race.finished
    /\ time = race.startTime + race.totalElapsed
    /\ downwindDist(foilState) >= RACE_LENGTH_KM * KM

\* C9: once the race is finished, or abandoned by a crash, no step makes it
\* active or changes its splits until R is pressed.
C9 ==
    [][~race.active /\ (race.finished \/ gameState = "crashed") =>
           \/ ~race'.active /\ race'.kmSplitTimes = race.kmSplitTimes
           \/ gameState = "crashed" /\ gameState' = "starting"]_vars

\* a race finished by a rider who crashed on the line, and a frame has run since
C9_Witness ==
    /\ gameState = "crashed" /\ ~race.active /\ race.finished
    /\ Len(race.kmSplitTimes) = RACE_LENGTH_KM
    /\ time > race.startTime + race.totalElapsed /\ frames = MaxFrames

C10_Step ==
    IsFrame /\ gameState = "riding" /\ ~race.active /\ ~race.finished =>
        /\ race'.startTime = time'
        /\ race'.active \/ race'.finished
        /\ race'.totalElapsed = 0
        /\ \A i \in 1..Len(race'.kmSplitTimes) : race'.kmSplitTimes[i] = 0

C10_Riding ==
    gameState = "riding" =>
        \/ race.active
        \/ race.finished
        \/ race = initialRace /\ foilState.position = SPAWN_POINT

\* C10: the first frame after a launch starts the race, with startTime that
\* frame's time and no split of an earlier race, so that every rider who has
\* ridden a frame has a race active or finished.
C10 == []C10_Riding /\ [][C10_Step]_vars

\* a race started by the frame just run, after a restart
C10_Witness ==
    /\ gameState = "riding" /\ race.active /\ race.startTime = time
    /\ time > RunEnd

\* C11: with the race finished and the results overlay shown, the keydown
\* handler of R leaves the rider and the race as constructed and gameState
\* starting.
C11 ==
    race.finished /\ finishOverlay =>
        LET p == keydown("KeyR", Prog)
        IN  p.gameState = "starting" /\ p.foilState = spawnFoilState /\ p.race = initialRace

\* finished while riding, the overlay shown, and keys pressed since
C11_Witness ==
    /\ race.finished /\ finishOverlay /\ gameState = "riding"
    /\ keys = MaxKeys /\ downwindDist(foilState) >= RACE_LENGTH_KM * KM

\* C12: rideHeight stays within 0..MAST_LENGTH.
C12 == 0 <= foilState.rideHeight /\ foilState.rideHeight <= MAST_LENGTH

\* riding at the top of the mast with the spring still pushing up
C12_Witness ==
    /\ gameState = "riding" /\ foilState.rideHeight = MAST_LENGTH
    /\ foilState.rideHeightVel > 0

----------------------------------------------------------------------------
(* saveHighScore called on its own: any sequence of times for one course, *)
(* on any list found in localStorage                                       *)

\* race times (ticks) handed to saveHighScore
ScoreTimes == {25830, 25840, 26000, 27130}

\* lists found in localStorage before the first save: those of
\* StoredSamples, and one with a null element
StoredLists ==
    StoredSamples
    \cup {<<HighScoreEntry(26000), StoredEntry(0, "undefined", "undefined", TRUE)>>}

\* localStorage takes the write, or throws
StoreEnvs == {env \in Envs : ~env.pumpAtTie /\ ~env.roundUp}

\* saveHighScore(RACE_LENGTH_KM, t) on the store: the times saved so far and
\* the rank returned are kept, and whether a write has been refused
SaveScore(t, env) ==
    /\ call.fn = "saveHighScore" /\ Len(call.times) < MaxSaves
    /\ highScores' = saveHighScore(highScores, t, env).stored
    /\ call' = [call EXCEPT !.times = Append(@, t),
                            !.rank = saveHighScore(highScores, t, env).rank,
                            !.isNew = saveHighScore(highScores, t, env).isNew,
                            !.failed = @ \/ env.setItemThrows]
    /\ UNCHANGED <<foilState, gameState, race, input, activeFoil, PARAMS, time,
                   finishOverlay, frames, keys>>

InitScores ==
    /\ foilState = spawnFoilState
    /\ gameState = "starting"
    /\ race = initialRace
    /\ input = initialInput
    /\ activeFoil = "High Aspect Race"
    /\ PARAMS = [windSpeed |-> WIND_SPEED]
    /\ time = 0
    /\ highScores \in StoredLists
    /\ finishOverlay = FALSE
    /\ frames = 0
    /\ keys = 0
    /\ call = [fn |-> "saveHighScore", initial |-> highScores, times |-> <<>>,
               rank |-> 0, isNew |-> FALSE, failed |-> FALSE]

NextScores == \E t \in ScoreTimes : \E env \in StoreEnvs : SaveScore(t, env)

SpecScores == InitScores /\ [][NextScores]_vars

\* the times of a list of entries
RECURSIVE timesOf(_)
timesOf(list) ==
    IF list = <<>> THEN <<>> ELSE <<Head(list).time>> \o timesOf(Tail(list))

\* how often v occurs among the entries of seq at the indices of I
Occurs(seq, I, v) == Cardinality({i \in I : seq[i] = v})

\* best is made of the n smallest entries of all
SmallestOf(best, all, n) ==
    \E I \in SUBSET (1..Len(all)) :
        /\ Cardinality(I) = n
        /\ \A i \in I, j \in (1..Len(all)) \ I : all[i] <= all[j]
        /\ \A k \in 1..Len(all) :
               Occurs(best, 1..Len(best), all[k]) = Occurs(all, I, all[k])

\* the times on record for the course: those the first save loaded from the
\* list it found, and those saved since
C13_Saved == timesOf(loadHighScores(call.initial)) \o call.times

\* C13: after any sequence of saves, none of them refused by localStorage,
\* the stored list holds at most 3 entries, all valid, in ascending order of
\* time, and their times are the 3 smallest of the times saved (all of them
\* when fewer than 3 were saved), the times that the first save loaded from
\* the list it found counted among them.
C13 ==
    call.fn = "saveHighScore" /\ call.times # <<>> /\ ~call.failed =>
        /\ Len(highScores) <= HIGH_SCORE_MAX
        /\ \A i \in 1..Len(highScores) : validEntry(highScores[i])
        /\ \A i \in 1..(Len(highScores) - 1) : highScores[i].time <= highScores[i + 1].time
        /\ Len(timesOf(highScores)) = Min(HIGH_SCORE_MAX, Len(C13_Saved))
        /\ SmallestOf(timesOf(highScores), C13_Saved, Min(HIGH_SCORE_MAX, Len(C13_Saved)))

\* four saves on an empty store, the last the best of them and the first
\* dropped from the list
C13_Witness ==
    /\ call.fn = "saveHighScore" /\ call.initial = <<>> /\ ~call.failed
    /\ Len(call.times) = 4
    /\ call.times[4] < call.times[3] /\ call.times[3] < call.times[2]
    /\ call.times[2] < call.times[1]
    /\ timesOf(highScores) = <<call.times[4], call.times[3], call.times[2]>>
    /\ call.rank = 1 /\ call.isNew

C14_Step ==
    IsFrame =>
        /\ \E env \in Envs :
               race' = updateRace(race, gameState', foilState', FrameDt, time', env).race
        /\ race.active /\ gameState' = "crashed" => ~race'.active
        /\ race.active /\ downwindDist(foilState') >= KM => Len(race'.kmSplitTimes) >= 1
        /\ race.active /\ downwindDist(foilState') >= RACE_LENGTH_KM * KM => race'.finished
        /\ \E tie \in BOOLEAN :
               \E ph \in {updatePhysics(foilState, gameState, input, activeFoil,
                                        FrameDt, time', PARAMS.windSpeed,
                                        [Calm EXCEPT !.pumpAtTie = tie])} :
                   foilState' = ph.foilState /\ gameState' = ph.gameState

\* C14: the race update of a frame reads the rider and gameState written by
\* the physics step of that frame, so that a km mark or the finish line
\* crossed, or a crash, in a frame shows in the race at the end of that frame;
\* and the rider and gameState at the end of the frame are those the physics
\* step left.
C14 == [][C14_Step]_vars

\* the frame just run took the rider across the line, and the race shows it
C14_Witness ==
    /\ gameState = "riding" /\ race.finished
    /\ time = race.startTime + race.totalElapsed
    /\ downwindDist(foilState) >= RACE_LENGTH_KM * KM
    /\ downwindDist(foilState) < RACE_LENGTH_KM * KM + Div(foilState.speed * DT_MAX, TicksPerSec)

----------------------------------------------------------------------------
(* smoothstep called on its own *)

\* edge0 and edge1: the lift curve of the two presets (0.7 and 1.3 of the
\* stall speed, mm/s), and a narrow pair below zero
EdgePairs == {<<4900, 9100>>, <<2800, 5200>>, <<-20, 40>>}

\* values of x tried beyond each edge
EdgeMargin == 3

\* the k-th value of x: edge0 at k = 0, edge1 at k = 2 * HalfSteps
XAt(edge0, edge1, k) == edge0 + Div(k * (edge1 - edge0), 2 * HalfSteps)

smoothstepCall(edge0, edge1, k) ==
    [fn |-> "smoothstep", edge0 |-> edge0, edge1 |-> edge1, k |-> k,
     x |-> XAt(edge0, edge1, k),
     result |-> smoothstep(edge0, edge1, XAt(edge0, edge1, k))]

\* smoothstep at the next value of x
SmoothNext ==
    /\ call.fn = "smoothstep" /\ call.k < 2 * HalfSteps + EdgeMargin
    /\ call' = smoothstepCall(call.edge0, call.edge1, call.k + 1)
    /\ UNCHANGED <<foilState, gameState, race, input, activeFoil, PARAMS, time,
                   highScores, finishOverlay, frames, keys>>

InitSmooth ==
    /\ foilState = spawnFoilState
    /\ gameState = "starting"
    /\ race = initialRace
    /\ input = initialInput
    /\ activeFoil = "High Aspect Race"
    /\ PARAMS = [windSpeed |-> WIND_SPEED]
    /\ time = 0
    /\ highScores = <<>>
    /\ finishOverlay = FALSE
    /\ frames = 0
    /\ keys = 0
    /\ \E e \in EdgePairs : call = smoothstepCall(e[1], e[2], -EdgeMargin)

SpecSmooth == InitSmooth /\ [][SmoothNext]_vars

C15_Values ==
    call.fn = "smoothstep" =>
        /\ call.x <= call.edge0 => call.result = 0
        /\ call.x >= call.edge1 => call.result = Unit
        /\ 2 * call.x = call.edge0 + call.edge1 => call.result = Unit \div 2

C15_Monotonic ==
    call.fn = "smoothstep" /\ call'.x >= call.x => call'.result >= call.result

\* C15: smoothstep(e0, e1, x) is 0 for x <= e0, 1 for x >= e1, 0.5 at the
\* middle of e0 and e1, and does not decrease as x grows.
C15 == []C15_Values /\ [][C15_Monotonic]_vars

\* smoothstep at the middle of the lift curve of the High Aspect Race foil
C15_Witness ==
    /\ call.fn = "smoothstep" /\ call.edge0 = 4900 /\ call.edge1 = 9100
    /\ call.x = 7000 /\ call.result = Unit \div 2

C17_Step ==
    /\ IsFrame /\ gameState = "riding" => ~input'.pump
    /\ input'.pump /\ ~input.pump =>
           ~IsFrame /\ gameState = "riding" /\ Prog' = keydownSpace(Prog)

\* C17: a frame run while riding leaves input.pump false, whether the pump
\* fired or not, and only Space pressed while riding sets it; so one press
\* gives at most one pump and a rejected intent is not tried again.
C17 == [][C17_Step]_vars

\* an intent rejected at the very end of the cooldown, and the intent gone
C17_Witness ==
    /\ gameState = "riding" /\ ~input.pump /\ input = initialInput
    /\ keys = 1 /\ frames = 1
    /\ time - foilState.lastPumpTime = PUMP_COOLDOWN
    /\ foilState.energy >= PUMP_COST

----------------------------------------------------------------------------
(* updatePhysics called on a rider picked in mid-ride *)

\* speed (mm/s), roll (urad), ride height (um) and its rate (um/s) of the
\* rider, and the keys held, at the start of the step
StepSpeeds == {900, 1000, 4500, 6000, 7500, 10500}
StepRolls == {0, 9000, -200000, MAX_ROLL}
StepHeights == {1200, 48000, 130000, 350000, 790000}
StepHeightVels == {-60000, 0, 400000}
StepInputs ==
    {initialInput, [initialInput EXCEPT !.left = TRUE],
     [initialInput EXCEPT !.right = TRUE, !.pump = TRUE],
     [initialInput EXCEPT !.down = TRUE]}

\* a rider under way: what the crash check of the step before lets through
\* with either preset
Rideable(speed, rideHeight) ==
    rideHeight > 1000 /\ (rideHeight >= 50000 \/ speed >= 4000)

\* the wind slider at the start of the step: 0.1 and 2.0
StepWinds == {10, 200}

\* clock time (30 s) at the start of the step
StepClock == 30 * TicksPerSec

\* the rider 300 m down the course
riderAt(speed, roll, rideHeight, rideHeightVel) ==
    [spawnFoilState EXCEPT !.position = [x |-> 0, y |-> 0, z |-> SPAWN_POINT.z + 300 * Milli],
                           !.distanceTravelled = 300 * Milli,
                           !.velocity = Scale(headingToDir(0), speed),
                           !.speed = speed, !.roll = roll,
                           !.rideHeight = rideHeight, !.rideHeightVel = rideHeightVel]

\* the ride of the race foil launched at clock 0 with the wind slider at 3.0
\* and left alone, in frames of 1/60 s: the rider before frame 78, which takes
\* it from 13.9 to 54.6 m/s down the face of an overturning wave, and before
\* frame 79; the race started in the first frame
FastRiders ==
    {[windSpeed |-> 300, clock |-> 385,
      foilState |-> [spawnFoilState EXCEPT
          !.position = [x |-> -4197, y |-> 0, z |-> -787272],
          !.velocity = [x |-> -2609, y |-> 0, z |-> 13655],
          !.heading = 215776, !.roll = 74692, !.rollRate = -697,
          !.rideHeight = 680230, !.rideHeightVel = 139731,
          !.speed = 13902, !.distanceTravelled = 13424]],
     [windSpeed |-> 300, clock |-> 390,
      foilState |-> [spawnFoilState EXCEPT
          !.position = [x |-> -4332, y |-> 0, z |-> -786372],
          !.velocity = [x |-> -8082, y |-> 0, z |-> 53991],
          !.heading = 220206, !.roll = 74679, !.rollRate = -743,
          !.rideHeight = 682515, !.rideHeightVel = 137070,
          !.speed = 54592, !.distanceTravelled = 13655]]}

\* the rider after Space while starting with the preset n selected
launchedRider(n) ==
    launchFoil([foilState |-> spawnFoilState, gameState |-> "starting",
                race |-> initialRace, input |-> initialInput, activeFoil |-> n,
                PARAMS |-> [windSpeed |-> WIND_SPEED], highScores |-> <<>>,
                finishOverlay |-> FALSE]).foilState

\* one frame on the rider
StepFrame(dt, env) ==
    /\ call.fn = "updatePhysics" /\ call.steps < MaxSteps
    /\ call' = [call EXCEPT !.steps = @ + 1]
    /\ time' = time + dt
    /\ Becomes(animate(Prog, dt, time + dt, env))
    /\ UNCHANGED <<frames, keys>>

\* the rider mid-ride, or as launched on either preset with no frame run
\* yet, or on the overturning wave
InitStep ==
    /\ activeFoil \in FoilNames
    /\ \/ /\ \E speed \in StepSpeeds, roll \in StepRolls, h \in StepHeights,
                hv \in StepHeightVels :
                 /\ Rideable(speed, h)
                 /\ foilState = riderAt(speed, roll, h, hv)
          /\ race = [startRace(0) EXCEPT !.totalElapsed = StepClock]
          /\ time = StepClock
          /\ \E v \in StepWinds : PARAMS = [windSpeed |-> v]
       \/ /\ foilState = launchedRider(activeFoil)
          /\ race = initialRace
          /\ time = 0
          /\ \E v \in StepWinds : PARAMS = [windSpeed |-> v]
       \/ \E r \in FastRiders :
             /\ foilState = r.foilState
             /\ race = [startRace(DT_MAX \div 2) EXCEPT !.totalElapsed = r.clock - DT_MAX \div 2]
             /\ time = r.clock
             /\ PARAMS = [windSpeed |-> r.windSpeed]
    /\ gameState = "riding"
    /\ input \in StepInputs
    /\ highScores = <<>>
    /\ finishOverlay = FALSE
    /\ frames = 0
    /\ keys = 0
    /\ call = [fn |-> "updatePhysics", steps |-> 0]

NextStep == \E dt \in DtSet : \E env \in EnvsAt(dt) : StepFrame(dt, env)

SpecStep == InitStep /\ [][NextStep]_vars

\* the lift ratio (per mille) of a rider, from the speed at the start of a step
LiftRatioAtStart == liftRatioOf(liftMagOf(FOIL_PRESETS[activeFoil], Length(foilState.velocity)))

\* the ride height (um) a step of the rider integrates and clamps, before the
\* crash check: from the height after the pump bump, if the pump fires
HeightIntegrated ==
    LET bumped == IF foilState'.lastPumpTime # foilState.lastPumpTime
                  THEN Min(foilState.rideHeight + 50000, MAST_LENGTH)
                  ELSE foilState.rideHeight
    IN  rideHeightStep(bumped, foilState.rideHeightVel, foilState'.pitch,
                       LiftRatioAtStart, Min(FrameDt, DT_MAX)).rideHeight

C18_Step ==
    IsFrame /\ gameState = "riding" =>
        LET h      == HeightIntegrated
            speed  == Length(foilState'.velocity)
            stall  == FOIL_PRESETS[activeFoil].stallSpeed
            crash  == h <= 1000 \/ (h < 50000 /\ speed < stall)
        IN  /\ gameState' = "crashed" <=> crash
            /\ crash => foilState'.rideHeight = 0 /\ ~foilState'.onFoil
            /\ ~crash => /\ gameState' = "riding" /\ foilState'.onFoil
                         /\ foilState'.rideHeight = h

\* C18: a physics step of a riding foil ends crashed exactly if the ride
\* height after integration and clamping is at most 0.001, or is below 0.05
\* with the speed of the final velocity below the stall speed of the foil;
\* then rideHeight is 0 and onFoil false, and otherwise gameState stays riding
\* and onFoil true.
C18 == [][C18_Step]_vars

\* crashed on the hard floor, at a speed above the stall speed
C18_Witness ==
    /\ call.fn = "updatePhysics" /\ call.steps = 1
    /\ gameState = "crashed" /\ foilState.rideHeight = 0 /\ ~foilState.onFoil
    /\ foilState.speed >= FOIL_PRESETS[activeFoil].stallSpeed

\* the rider has been launched and no frame has run since
JustLaunched ==
    /\ gameState = "riding" /\ race = initialRace
    /\ foilState.position = SPAWN_POINT /\ foilState.distanceTravelled = 0

C19_Step ==
    IsFrame /\ gameState = "riding" =>
        /\ LiftRatioAtStart > 1000 =>
               gameState' = "riding" /\ foilState'.rideHeight >= 120000
        /\ JustLaunched => gameState' = "riding"

\* the launch speed of a preset lifts more than the weight
C19_Launch ==
    \A n \in FoilNames :
        LET p == launchFoil([Prog EXCEPT !.activeFoil = n, !.foilState = spawnFoilState])
        IN  liftRatioOf(liftMagOf(FOIL_PRESETS[n], Length(p.foilState.velocity))) > 1000

\* C19: a physics step that starts with the lift (from the speed at the start
\* of the step) above the weight ends riding with rideHeight at least 0.12;
\* and the first step after a launch, with either preset, does not crash.
C19 == []C19_Launch /\ [][C19_Step]_vars

\* held up by the floor: at 0.12 with the spring pulling down
C19_Witness ==
    /\ call.fn = "updatePhysics" /\ call.steps = 1
    /\ gameState = "riding" /\ foilState.rideHeight = 120000
    /\ foilState.rideHeightVel < 0

C20_Step ==
    IsFrame /\ gameState = "riding" =>
        LET dt    == Min(FrameDt, DT_MAX)
            limit == Div(FOIL_PRESETS[activeFoil].turnRateMax * dt, TicksPerSec)
        IN  /\ Abs(foilState'.heading - foilState.heading) <= limit
            /\ Abs(foilState'.roll) <= 10000 \/ Length(foilState.velocity) <= 1000 =>
                   foilState'.heading = foilState.heading

\* C20: a physics step changes the heading by at most turnRateMax * dt, dt
\* clamped to 1/30 s, and not at all if the roll the step has just
\* integrated is at most 0.01 in size or the speed at the start of the step
\* is at most 1.0.
C20 == [][C20_Step]_vars

\* a full-dt step banked hard on the Mid Aspect foil: turned by all of
\* turnRateMax * dt
C20_Witness ==
    /\ call.fn = "updatePhysics" /\ call.steps = 1
    /\ activeFoil = "Mid Aspect Cruise"
    /\ Abs(foilState.heading) = Div(FOIL_PRESETS[activeFoil].turnRateMax * DT_MAX, TicksPerSec)

----------------------------------------------------------------------------
(* getSurfaceInfoAtWorldPos called on its own *)

\* world points (mm), clock times (ticks) and wind speeds (hundredths; 118 is
\* PARAMS.windSpeed as constructed)
SurfaceXs == {-137891, 3552, 31319, 140668, 255942}
SurfaceZs == {-473832, -456628, -184104, -119572, 148082}
SurfaceTs == {0, 150, 450, 20112}
WindSpeeds == {50, 80, 100, 118, 150, 200}

SurfaceSolve ==
    /\ call.fn = "getSurfaceInfoAtWorldPos" /\ call.evals = <<>>
    /\ call' = [call EXCEPT !.evals = surfaceEvals(call.x, call.z, call.t, call.windSpeed),
                            !.info = getSurfaceInfoAtWorldPos(call.x, call.z, call.t,
                                                              call.windSpeed)]
    /\ UNCHANGED <<foilState, gameState, race, input, activeFoil, PARAMS, time,
                   highScores, finishOverlay, frames, keys>>

InitSurface ==
    /\ foilState = spawnFoilState
    /\ gameState = "starting"
    /\ race = initialRace
    /\ input = initialInput
    /\ activeFoil = "High Aspect Race"
    /\ PARAMS = [windSpeed |-> WIND_SPEED]
    /\ time = 0
    /\ highScores = <<>>
    /\ finishOverlay = FALSE
    /\ frames = 0
    /\ keys = 0
    /\ \E x \in SurfaceXs, z \in SurfaceZs, t \in SurfaceTs, ws \in WindSpeeds :
           call = [fn |-> "getSurfaceInfoAtWorldPos", x |-> x, z |-> z, t |-> t,
                   windSpeed |-> ws, evals |-> <<>>, info |-> <<>>]

SpecSurface == InitSurface /\ [][SurfaceSolve]_vars

\* horizontal distance (mm) of the i-th point evaluated from the point asked for
Residual(i) ==
    Length([x |-> call.x - call.evals[i].x, y |-> 0, z |-> call.z - call.evals[i].z])

\* distances below this (mm) are within the rounding of the arithmetic
Resolution == 5

Converges ==
    /\ Len(call.evals) = 4
    /\ call.info = call.evals[4]
    /\ Residual(4) < 50
    /\ \A i \in 1..3 : Residual(i + 1) <= Max(Residual(i), Resolution)

\* C16: for every windSpeed in [0.5, 2.0] the point returned after the 4
\* evaluations is less than 0.05 m, horizontally, from the point asked for,
\* and the distance does not grow from one evaluation to the next (distances
\* within the rounding of the arithmetic apart).
C16 ==
    call.fn = "getSurfaceInfoAtWorldPos" /\ call.evals # <<>> => Converges

\* C16, amended: the same for every windSpeed in [0.5, 1.0].
C16_Amended ==
    call.fn = "getSurfaceInfoAtWorldPos" /\ call.evals # <<>> /\ call.windSpeed <= 100 =>
        Converges

\* windSpeed 1.0, a point first missed by more than 0.5 m
C16_Witness ==
    /\ call.fn = "getSurfaceInfoAtWorldPos" /\ call.evals # <<>>
    /\ call.windSpeed = 100 /\ Residual(1) > 500 /\ Residual(4) < 50

----------------------------------------------------------------------------
(* Foil presets swapped in mid-ride *)

\* a step is an event of the foil drop-down when it changes the preset
C21_Select ==
    activeFoil' # activeFoil =>
        /\ foilState' = foilState /\ gameState' = gameState /\ race' = race
        /\ input' = input /\ time' = time /\ PARAMS' = PARAMS
        /\ highScores' = highScores /\ finishOverlay' = finishOverlay

\* the riding step of a frame, computed with the coefficients of foil alone
C21_Physics ==
    IsFrame /\ gameState = "riding" =>
        /\ activeFoil' = activeFoil
        /\ \E foil \in {FOIL_PRESETS[activeFoil]} :
           \E speed \in {Length(foilState.velocity)} :
           \E liftMag \in {liftMagOf(foil, speed)} :
           \E wave \in {sampleAcross(foilState.position.x, foilState.position.z,
                                     [x |-> Cos(foilState.heading),
                                      z |-> -Sin(foilState.heading)],
                                     foil.wingSpan \div 2, time', PARAMS.windSpeed)} :
               /\ foilState'.heading =
                      headingAfterTurn(foilState.heading, foilState'.roll, speed,
                                       liftMag, foil, Min(FrameDt, DT_MAX))
               /\ gameState' = "crashed" <=>
                      crashes(HeightIntegrated, foilState'.speed, foil)
               /\ foilState'.rollRate =
                      stepAttitude([fs |-> foilState, inp |-> input, foil |-> foil,
                                    dt |-> Min(FrameDt, DT_MAX), wave |-> wave]).rollRate
               /\ \E tie \in BOOLEAN :
                      foilState'.velocity =
                          physicsStep(foilState, input, activeFoil, FrameDt, time',
                                      PARAMS.windSpeed,
                                      [Calm EXCEPT !.pumpAtTie = tie]).foilState.velocity

\* C21: selecting a foil preset, in any game state, changes activeFoil only
\* (rider, gameState, race, input, clock, wind, high scores and overlay stay
\* as they are); a frame does not change the preset, and its physics step
\* takes the turn cap, the stall test, the lift, the drag and the wing span
\* all from the preset selected when the frame starts.
C21 == [][C21_Select /\ C21_Physics]_vars

\* in mid-ride on the race foil, after the last pump of the run, the cruise
\* foil was selected and the next frame rode on it
C21_Witness ==
    /\ gameState = "riding" /\ activeFoil = "Mid Aspect Cruise"
    /\ keys = 1 /\ frames = 1 /\ time > 50 * DT_MAX /\ race.active
    /\ foilState.lastPumpTime = 47 * DT_MAX

----------------------------------------------------------------------------
(* Path length *)

\* no frame of a ride shortens the path covered
C23_Step ==
    gameState = "riding" /\ IsFrame =>
        foilState'.distanceTravelled >= foilState.distanceTravelled

\* C23: distanceTravelled never decreases during a ride, and in every state
\* it is at least the downwind distance max(0, position.z - RACE_START_Z).
C23 ==
    /\ [][C23_Step]_vars
    /\ [](foilState.distanceTravelled >= downwindDist(foilState))

\* a riding step adds the speed it started with times dt to the path, and
\* moves the rider downwind by no more than the speed it ends with times dt
C23_Accumulates ==
    gameState = "riding" /\ IsFrame =>
        LET dt == Min(FrameDt, DT_MAX)
        IN  /\ foilState'.distanceTravelled =
                   foilState.distanceTravelled
                   + Rnd(Length(foilState.velocity) * dt, TicksPerSec)
            /\ downwindDist(foilState') - downwindDist(foilState)
                   <= Rnd(foilState'.speed * dt, TicksPerSec) + 1

\* C23 as amended: distanceTravelled never decreases during a ride; each
\* riding step adds to it dt times the speed at the start of the step, while
\* the downwind distance grows by at most dt times the speed at the end of
\* the step.
C23_Amended == [][C23_Step /\ C23_Accumulates]_vars

\* a rider who has gained speed is further downwind than the path recorded
C23_Witness ==
    /\ gameState = "riding" /\ time > 0
    /\ foilState.distanceTravelled > 0
    /\ foilState.distanceTravelled < downwindDist(foilState)

----------------------------------------------------------------------------
(* Launch *)

C24_Step ==
    gameState = "starting" /\ gameState' = "riding" =>
        /\ foilState.heading = 0
        /\ foilState'.velocity =
               [x |-> 0, y |-> 0, z |-> Div(FOIL_PRESETS[activeFoil].stallSpeed * 15, 10)]
        /\ foilState'.rideHeight = 350000 /\ foilState'.onFoil
        /\ foilState' = [foilState EXCEPT !.velocity = foilState'.velocity,
                                          !.rideHeight = 350000, !.onFoil = TRUE]
        /\ foilState'.position = foilState.position
        /\ foilState'.energy = foilState.energy
        /\ foilState'.lastPumpTime = foilState.lastPumpTime
        /\ foilState'.distanceTravelled = foilState.distanceTravelled
        /\ foilState'.roll = foilState.roll /\ foilState'.pitch = foilState.pitch
        /\ race' = race /\ activeFoil' = activeFoil /\ time' = time

\* C24: the step from starting to riding (Space while starting) sets the
\* velocity to 1.5 times the stall speed of the active foil along +Z (the
\* heading is 0), rideHeight to 0.35 m and onFoil to true, and leaves
\* position, energy, lastPumpTime, distanceTravelled, roll, pitch, the other
\* fields of the rider and the race as they were.
C24 == [][C24_Step]_vars

\* launched on the cruise foil at 1.5 times its stall speed, no frame run yet
C24_Witness ==
    /\ gameState = "riding" /\ activeFoil = "Mid Aspect Cruise"
    /\ foilState.velocity = [x |-> 0, y |-> 0, z |-> 6000]
    /\ foilState.position = SPAWN_POINT /\ foilState.speed = 0
    /\ ~race.active

----------------------------------------------------------------------------
(* The race-finished event *)

\* showRaceResults ran in this step: it brought the overlay up, or changed
\* the stored list
C25_Emitted == (finishOverlay' /\ ~finishOverlay) \/ highScores' # highScores

C25_Step ==
    /\ C25_Emitted =>
           /\ IsFrame /\ gameState = "riding"
           /\ ~race.finished /\ race'.finished
           /\ downwindDist(foilState') >= RACE_LENGTH_KM * KM
           /\ \E env \in Envs :
                  highScores' = saveHighScore(highScores, race'.totalElapsed, env).stored
           /\ finishOverlay'
    /\ ~race.finished /\ race'.finished => finishOverlay' /\ ~finishOverlay
    /\ race.finished => race'.finished \/ gameState' = "starting"
    /\ gameState = "crashed" => ~C25_Emitted

\* C25: showRaceResults runs, with its one call of saveHighScore, in the
\* frame in which race.finished becomes true and in no other step: never
\* again while the race stays finished, which it does until the restart,
\* never in a key event, and never for a rider who crashed short of the
\* finish distance.
C25 == [][C25_Step]_vars

\* frames have run after the finish, and the one result is all that is saved
C25_Witness ==
    /\ race.finished /\ finishOverlay
    /\ timesOf(highScores) = <<race.totalElapsed>>
    /\ frames = MaxFrames
    /\ time >= race.startTime + race.totalElapsed + DT_MAX \div 2

----------------------------------------------------------------------------
(* Waiting at the start *)

C26_Spawn ==
    gameState = "starting" =>
        /\ foilState.position = SPAWN_POINT
        /\ foilState.velocity = [x |-> 0, y |-> 0, z |-> 0]
        /\ foilState.heading = 0 /\ foilState.rideHeight = 350000
        /\ foilState.energy = ENERGY_MAX /\ foilState.distanceTravelled = 0
        /\ foilState.lastPumpTime = -10 * TicksPerSec /\ foilState.onFoil
        /\ foilState = spawnFoilState
        /\ ~race.active /\ ~race.finished /\ race.kmSplitTimes = <<>>
        /\ race = initialRace

C26_Step ==
    gameState = "starting" =>
        \/ gameState' = "starting" /\ foilState' = foilState /\ race' = race
        \/ gameState' = "riding" /\ ~IsFrame /\ race' = race

\* C26: while gameState is starting the rider is as constructed (position
\* SPAWN_POINT, velocity 0, heading 0, rideHeight 0.35, energy 100,
\* distanceTravelled 0, lastPumpTime -10, onFoil true) and the race inactive,
\* unfinished and without splits; frames and key events leave gameState,
\* rider and race as they are, except the launch, which is no frame and
\* leaves the race as it is.
C26 == []C26_Spawn /\ [][C26_Step]_vars

\* never launched: frames have run, an arrow is held and the foil was swapped
C26_Witness ==
    /\ gameState = "starting" /\ time > 0 /\ time <= MaxFrames * 12 * DT_MAX
    /\ frames = MaxFrames /\ keys = MaxKeys
    /\ input.left /\ activeFoil = "Mid Aspect Cruise"

----------------------------------------------------------------------------
(* Off the foil *)

\* C27: in every state onFoil is false exactly when gameState is crashed, and
\* a crashed rider has rideHeight 0.
C27 ==
    /\ ~foilState.onFoil <=> gameState = "crashed"
    /\ gameState = "crashed" => foilState.rideHeight = 0

\* crashed on the run with height in hand (a stall below 0.05 m), and frames
\* and key events have passed since
C27_Witness ==
    /\ gameState = "crashed" /\ ~foilState.onFoil /\ foilState.rideHeight = 0
    /\ foilState.rideHeightVel < 0 /\ foilState.speed > 0
    /\ frames = MaxFrames /\ keys = MaxKeys
    /\ time > race.startTime + race.totalElapsed

----------------------------------------------------------------------------
(* Space and R between the frames of a rider picked in mid-ride *)

\* Space or R on the rider, before or after the frame
StepKey(code) ==
    /\ call.fn = "updatePhysics" /\ keys < MaxKeys
    /\ keys' = keys + 1
    /\ Becomes(keydown(code, Prog))
    /\ UNCHANGED <<time, frames, call>>

NextKeys ==
    \/ \E dt \in DtSet : \E env \in EnvsAt(dt) : StepFrame(dt, env)
    \/ \E code \in {"Space", "KeyR"} : StepKey(code)

\* the riders of InitStep that are level, in a wind of 0.1
InitKeys == InitStep /\ foilState.roll = 0 /\ PARAMS.windSpeed = 10

SpecKeys == InitKeys /\ [][NextKeys]_vars

\* a step that does not start from riding, or that changes the game state,
\* leaves no pump intent
C28_Step ==
    /\ gameState # "riding" => ~input'.pump
    /\ gameState' # gameState => ~input'.pump

\* C28: whatever the order of key events and frames, input.pump is true
\* only while gameState is riding: Space while starting launches and queues
\* no pump, Space while crashed queues nothing, and the frame of a crash and
\* the restart leave no pump intent for the next ride.
C28 == [](input.pump => gameState = "riding") /\ [][C28_Step]_vars

\* Space queued a pump (no arrow held), the frame that fired it ended in a
\* crash, and the intent is gone
C28_Witness ==
    /\ gameState = "crashed" /\ ~input.pump /\ ~input.right
    /\ call.fn = "updatePhysics" /\ call.steps = 1 /\ keys = 1
    /\ foilState.lastPumpTime = time

----------------------------------------------------------------------------
(* Active races *)

\* C29: the race is never both active and finished, and after every frame
\* (its race update done) and every key event an active race has a riding
\* rider.
C29 ==
    /\ ~(race.active /\ race.finished)
    /\ race.active => gameState = "riding"

\* the race was active until the frame just run, in which the rider crashed
\* short of the line
C29_Witness ==
    /\ gameState = "crashed" /\ ~race.active /\ ~race.finished
    /\ race.startTime > 0 /\ race.totalElapsed = time - race.startTime
    /\ downwindDist(foilState) < RACE_LENGTH_KM * KM

----------------------------------------------------------------------------
(* Splits *)

C30_Splits ==
    /\ Len(race.kmSplitTimes) = race.lastKmReached
    /\ race.lastKmReached <= RACE_LENGTH_KM
    /\ \A i \in 1..Len(race.kmSplitTimes) : race.kmSplitTimes[i] <= race.totalElapsed

\* the race as the split loop of a frame leaves it, at the clock time t of
\* the frame and with the rider fs that the physics step left
C30_AfterLoop(t, fs) ==
    splitLoop([race EXCEPT !.totalElapsed = t - race.startTime],
              race.lastKmReached + 1, downwindDist(fs) \div KM, Calm)

C30_Finish ==
    IsFrame /\ race.active /\ finishReached(downwindDist(foilState')) =>
        /\ Len(C30_AfterLoop(time', foilState').kmSplitTimes) = RACE_LENGTH_KM
        /\ backfill(C30_AfterLoop(time', foilState')) = C30_AfterLoop(time', foilState')
        /\ race'.kmSplitTimes = C30_AfterLoop(time', foilState').kmSplitTimes
        /\ race'.finished

\* C30: in every state the number of splits is lastKmReached, at most
\* RACE_LENGTH_KM, and no split is later than totalElapsed; in the frame in
\* which the finish test fires the split loop has already recorded
\* RACE_LENGTH_KM splits, so that the backfill loop appends nothing.
C30 == []C30_Splits /\ [][C30_Finish]_vars

\* finished with the split of the last km recorded at the finish time
C30_Witness ==
    /\ race.finished /\ race.lastKmReached = RACE_LENGTH_KM
    /\ Len(race.kmSplitTimes) = RACE_LENGTH_KM
    /\ race.kmSplitTimes[RACE_LENGTH_KM] = race.totalElapsed
    /\ race.totalElapsed > 0

====
